---- MODULE Spec2Model ----
(***************************************************************************)
(* A model of the SDF primitive codec of the yetty client:                 *)
(*   tools/yetty-client/core/sdf.py  (parse_color, pack_sdf_primitive,     *)
(*   compute_aabb, parse_primitive, parse_yaml_to_binary),                 *)
(* and of what stands around it:                                           *)
(*   src/yetty/ydraw/gen-ydraw-types.py  (load_primitives and the          *)
(*   generated readPrimitive / writePrimitive),                            *)
(*   tools/yetty-client/plugins/ydraw.py  (the plugin's copy of the        *)
(*   packer),                                                              *)
(*   tools/yetty-client/encode.py, core/osc.py  (base94 and the escape     *)
(*   sequences),                                                           *)
(*   src/yetty/plugins/python/init.py, yetty.py  (the layer lifecycle).    *)
(*                                                                         *)
(* Representation of values.                                               *)
(*   - A Python str is a sequence of one-character strings.                *)
(*   - A Python int that may exceed 31 bits (a colour) is a record         *)
(*     [neg, mag]: a sign and the magnitude's base-256 digits, least       *)
(*     significant first, with no most-significant zero digit.             *)
(*   - A geometry number is an integer counting quarters (n stands for     *)
(*     n/4); the numbers explored are multiples of 1/2, on which x * 0.5,  *)
(*     x / 2 and x * 1.5 are exact.                                        *)
(*   - A float the codec emits is [e10, q], standing for e10 * 1e10 + q/4, *)
(*     so that the unbounded box (-1e10, -1e10, 1e10, 1e10) is exact.      *)
(*   - A packed buffer is a sequence of 4-byte words; an 'I' word holds    *)
(*     its four little-endian bytes, an 'f' word holds the number written. *)
(***************************************************************************)
EXTENDS Integers, Sequences, FiniteSets, TLC

VARIABLES
    literal,        \* parse_color: the argument color_str
    color_pc,       \* parse_color: "idle" | "call" | "returned" | "raised" | "reparsed"
    color_ret,      \* parse_color: the value returned (a [neg, mag] integer)
    color_again,    \* parse_color(str(color_ret)): [ok, v]
    aabb_pc,        \* compute_aabb: "idle" | "call" | "returned"
    aabb_args,      \* compute_aabb: [prim_type, params, stroke_width, corner_round]
    aabb_ret,       \* compute_aabb: the box returned
    rec_pc,         \* pack_sdf_primitive: "idle" | "call" | "returned" | "raised"
    rec_args,       \* pack_sdf_primitive: its eight arguments
    rec_ret,        \* pack_sdf_primitive: the words returned
    docs,           \* parse_yaml_to_binary: list(yaml.safe_load_all(yaml_content))
    doc_i,          \* parse_yaml_to_binary: how many documents the loop has visited
    layer_n,        \* parse_yaml_to_binary: layer
    primitives,     \* parse_yaml_to_binary: primitives
    bg_color,       \* parse_yaml_to_binary: bg_color
    flags,          \* parse_yaml_to_binary: flags
    pack_pc,        \* parse_yaml_to_binary: "idle" | "loop" | "done" | "raised"
    pack_ret,       \* parse_yaml_to_binary: the buffer returned
    prim_pc,        \* parse_primitive: "idle" | "call" | "returned"
    prim_args,      \* parse_primitive: [name, fields, layer], prim_dict = {name: fields}
    prim_ret,       \* parse_primitive: the bytes returned
    schema_pc,      \* gen-ydraw-types: "idle" | "call" | "loaded" | "written" | "read"
    schema_in,      \* load_primitives: data["primitives"] as the file declares it
    schema_out,     \* load_primitives: the list returned
    io_prim,        \* writePrimitive: the SDFPrimitive written
    io_buf,         \* writePrimitive: [n, buf], the words written and their count
    io_back,        \* readPrimitive: [ok, prim], the SDFPrimitive read back
    calls,          \* parse_yaml_to_binary, concurrent: the locals of each invocation
    copy_sdf,       \* core/sdf.py parse_yaml_to_binary: its locals
    copy_ydraw,     \* plugins/ydraw.py parse_yaml_to_binary: its locals, same text
    b94_pc,         \* base94: "idle" | "call" | "encoded" | "decoded" | "wrapped"
    b94_data,       \* base94_encode: data, a list of byte values
    b94_text,       \* base94_encode: the text returned, a list of code points
    b94_back,       \* base94_decode(b94_text): [ok, v]
    b94_seq,        \* the escape sequence built around b94_text, a list of code points
    plugin_initialized, \* init.py: _plugin_initialized
    current_layer_id, \* init.py: _current_layer_id, the id counter
    layer_classes,  \* yetty.py: _layer_classes, the classes registered, oldest first
    layer_instances, \* yetty.py: _layer_instances, id -> instance
    yetty_current,  \* yetty.py: _current_layer_id, {} for None or {id}
    returned_ids,   \* the ids init_layer has returned, in the order of the calls
    disposed_ids,   \* the ids init_layer assigned whose dispose_layer has completed
    plug_last       \* the last call of the host: [op, id, result, invoked]

colorVars == <<literal, color_pc, color_ret, color_again>>
aabbVars == <<aabb_pc, aabb_args, aabb_ret>>
recVars == <<rec_pc, rec_args, rec_ret>>
packVars == <<docs, doc_i, layer_n, primitives, bg_color, flags, pack_pc, pack_ret>>
primVars == <<prim_pc, prim_args, prim_ret>>
schemaVars == <<schema_pc, schema_in, schema_out, io_prim, io_buf, io_back>>
concVars == <<calls>>
copyVars == <<copy_sdf, copy_ydraw>>
coreVars == <<colorVars, aabbVars, recVars, packVars, primVars>>
b94Vars == <<b94_pc, b94_data, b94_text, b94_back, b94_seq>>
plugVars == <<plugin_initialized, current_layer_id, layer_classes, layer_instances,
              yetty_current, returned_ids, disposed_ids, plug_last>>
restVars == <<schemaVars, concVars, copyVars, b94Vars, plugVars>>
schemaOthers == <<coreVars, concVars, copyVars, b94Vars, plugVars>>
concOthers == <<coreVars, schemaVars, copyVars, b94Vars, plugVars>>
copyOthers == <<coreVars, schemaVars, concVars, b94Vars, plugVars>>
b94Others == <<coreVars, schemaVars, concVars, copyVars, plugVars>>
plugOthers == <<coreVars, schemaVars, concVars, copyVars, b94Vars>>

vars == <<literal, color_pc, color_ret, color_again, aabb_pc, aabb_args, aabb_ret,
          rec_pc, rec_args, rec_ret,
          docs, doc_i, layer_n, primitives, bg_color, flags, pack_pc, pack_ret,
          prim_pc, prim_args, prim_ret,
          schema_pc, schema_in, schema_out, io_prim, io_buf, io_back, calls,
          copy_sdf, copy_ydraw,
          b94_pc, b94_data, b94_text, b94_back, b94_seq,
          plugin_initialized, current_layer_id, layer_classes, layer_instances, yetty_current, returned_ids, disposed_ids, plug_last>>

-----------------------------------------------------------------------------
(* A function that is not being called *)

ColorIdle ==
    /\ literal = <<>>
    /\ color_pc = "idle"
    /\ color_ret = [neg |-> FALSE, mag |-> <<>>]
    /\ color_again = [ok |-> FALSE, v |-> [neg |-> FALSE, mag |-> <<>>]]

AabbIdle ==
    /\ aabb_pc = "idle"
    /\ aabb_args = <<>>
    /\ aabb_ret = <<>>

RecIdle ==
    /\ rec_pc = "idle"
    /\ rec_args = <<>>
    /\ rec_ret = <<>>

PackIdle ==
    /\ docs = <<>>
    /\ doc_i = 0
    /\ layer_n = 0
    /\ primitives = <<>>
    /\ bg_color = [neg |-> FALSE, mag |-> <<>>]
    /\ flags = 0
    /\ pack_pc = "idle"
    /\ pack_ret = <<>>

PrimIdle ==
    /\ prim_pc = "idle"
    /\ prim_args = <<>>
    /\ prim_ret = <<>>

SchemaIdle ==
    /\ schema_pc = "idle"
    /\ schema_in = <<>>
    /\ schema_out = <<>>
    /\ io_prim = <<>>
    /\ io_buf = <<>>
    /\ io_back = <<>>

ConcIdle == calls = <<>>

CopyIdle == copy_sdf = <<>> /\ copy_ydraw = <<>>

B94Idle ==
    /\ b94_pc = "idle"
    /\ b94_data = <<>>
    /\ b94_text = <<>>
    /\ b94_back = <<>>
    /\ b94_seq = <<>>

PlugIdle ==
    /\ plugin_initialized = FALSE
    /\ current_layer_id = 0
    /\ layer_classes = <<>>
    /\ layer_instances = <<>>
    /\ yetty_current = {}
    /\ returned_ids = <<>>
    /\ disposed_ids = {}
    /\ plug_last = <<>>

CoreIdle == ColorIdle /\ AabbIdle /\ RecIdle /\ PackIdle /\ PrimIdle
RestIdle == SchemaIdle /\ ConcIdle /\ CopyIdle /\ B94Idle /\ PlugIdle
SchemaOthersIdle == CoreIdle /\ ConcIdle /\ CopyIdle /\ B94Idle /\ PlugIdle
ConcOthersIdle == CoreIdle /\ SchemaIdle /\ CopyIdle /\ B94Idle /\ PlugIdle
CopyOthersIdle == CoreIdle /\ SchemaIdle /\ ConcIdle /\ B94Idle /\ PlugIdle
B94OthersIdle == CoreIdle /\ SchemaIdle /\ ConcIdle /\ CopyIdle /\ PlugIdle
PlugOthersIdle == CoreIdle /\ SchemaIdle /\ ConcIdle /\ CopyIdle /\ B94Idle

-----------------------------------------------------------------------------
(* Bounds *)

\* Longest run of characters after a '#', '0x' or '0X' prefix.
MaxHexLen == 9

\* compute_aabb: each parameter takes one of MaxValIdx + 1 values, the stroke
\* width one of MaxStrokeIdx + 1, the corner rounding one of MaxRoundIdx + 1.
MaxValIdx == 1
MaxStrokeIdx == 1
MaxRoundIdx == 1
\* compute_aabb: the largest type tag called with (SDF_TYPE_EGG is 20).
MaxTypeTag == 21

\* parse_yaml_to_binary: the size of the YAML stream, counting one for each
\* document, list item, body entry and document-level key.
MaxSize == 4

\* The layers parse_primitive is called with: 0..MaxLayer.
MaxLayer == 1

-----------------------------------------------------------------------------
(* Python integers of unbounded size *)

Min2(a, b) == IF a <= b THEN a ELSE b
Max2(a, b) == IF a >= b THEN a ELSE b

Zero == [neg |-> FALSE, mag |-> <<>>]

RECURSIVE Norm(_)
\* Drop the most-significant zero digits of a little-endian magnitude.
Norm(mag) ==
    IF mag = <<>> THEN <<>>
    ELSE IF mag[Len(mag)] = 0 THEN Norm(SubSeq(mag, 1, Len(mag) - 1))
    ELSE mag

RECURSIVE MulAdd(_, _, _)
\* mag * m + c on little-endian base-256 digits.
MulAdd(mag, m, c) ==
    IF mag = <<>>
    THEN IF c = 0 THEN <<>> ELSE <<c % 256>> \o MulAdd(<<>>, m, c \div 256)
    ELSE LET t == mag[1] * m + c
         IN  <<t % 256>> \o MulAdd(Tail(mag), m, t \div 256)

RECURSIVE DivSmall(_, _)
\* Long division of a little-endian magnitude by a small d: [q, r].
DivSmall(mag, d) ==
    IF mag = <<>> THEN [q |-> <<>>, r |-> 0]
    ELSE LET hi  == DivSmall(Tail(mag), d)
             cur == hi.r * 256 + mag[1]
         IN  [q |-> <<cur \div d>> \o hi.q, r |-> cur % d]

\* The integer n >= 0 of the model's own arithmetic as a Python integer.
FromNat(n) == [neg |-> FALSE, mag |-> MulAdd(<<>>, 1, n)]

RECURSIVE BitOrNat(_, _)
BitOrNat(x, y) ==
    IF x = 0 THEN y
    ELSE IF y = 0 THEN x
    ELSE 2 * BitOrNat(x \div 2, y \div 2)
         + (IF x % 2 = 1 \/ y % 2 = 1 THEN 1 ELSE 0)

RECURSIVE MagOr(_, _)
MagOr(m1, m2) ==
    IF m1 = <<>> THEN m2
    ELSE IF m2 = <<>> THEN m1
    ELSE <<BitOrNat(m1[1], m2[1])>> \o MagOr(Tail(m1), Tail(m2))

\* x | y for the non-negative operands parse_color meets on the modelled
\* alphabet (no sign character follows a '#').
BitOr(x, y) == [neg |-> FALSE, mag |-> MagOr(x.mag, y.mag)]

\* x << (8 * k)
Shl8(x, k) ==
    IF x.mag = <<>> THEN x
    ELSE [neg |-> x.neg, mag |-> [i \in 1..k |-> 0] \o x.mag]

\* (x >> (8 * k)) & 0xFF for x >= 0
ByteAt(x, k) ==
    IF k + 1 <= Len(x.mag) THEN FromNat(x.mag[k + 1]) ELSE Zero

-----------------------------------------------------------------------------
(* Python str <-> int *)

DigitTable ==
    ("0" :> 0) @@ ("1" :> 1) @@ ("2" :> 2) @@ ("3" :> 3) @@ ("4" :> 4) @@
    ("5" :> 5) @@ ("6" :> 6) @@ ("7" :> 7) @@ ("8" :> 8) @@ ("9" :> 9) @@
    ("a" :> 10) @@ ("b" :> 11) @@ ("c" :> 12) @@ ("d" :> 13) @@ ("e" :> 14) @@
    ("f" :> 15) @@ ("A" :> 10) @@ ("B" :> 11) @@ ("C" :> 12) @@ ("D" :> 13) @@
    ("E" :> 14) @@ ("F" :> 15)

DigitChars == <<"0", "1", "2", "3", "4", "5", "6", "7", "8", "9">>

IsDigit(c, base) == c \in DOMAIN DigitTable /\ DigitTable[c] < base

RECURSIVE DigitsValue(_, _, _)
\* Horner's rule over the digits of s, most significant first.
DigitsValue(s, base, acc) ==
    IF s = <<>> THEN acc
    ELSE DigitsValue(Tail(s), base, MulAdd(acc, base, DigitTable[s[1]]))

\* s[i:j] of Python (0-based, end-exclusive, clamped to the string).
Slice(s, i, j) ==
    LET hi == Min2(j, Len(s))
    IN  IF i >= hi THEN <<>> ELSE SubSeq(s, i + 1, hi)

StartsWith(s, p) == Len(s) >= Len(p) /\ SubSeq(s, 1, Len(p)) = p

\* The text after an optional sign.
StripSign(s) == IF Len(s) > 0 /\ s[1] \in {"-", "+"} THEN Tail(s) ELSE s

\* The text after an optional 0x / 0X, which base 16 allows.
StripRadixPrefix(s1, base) ==
    IF base = 16 /\ Len(s1) >= 2 /\ s1[1] = "0" /\ s1[2] \in {"x", "X"}
    THEN Slice(s1, 2, Len(s1))
    ELSE s1

\* The integer of a sign and a magnitude; -0 is 0.
SignedInt(minus, mag) == [neg |-> (minus /\ mag # <<>>), mag |-> mag]

\* The value of the digits s2 of the literal s, or ValueError.
IntOfDigits(s, s2, base) ==
    IF Len(s2) > 0 /\ \A i \in 1..Len(s2) : IsDigit(s2[i], base)
    THEN [ok |-> TRUE, v |-> SignedInt(s[1] = "-", DigitsValue(s2, base, <<>>))]
    ELSE [ok |-> FALSE, v |-> Zero]

\* int(s, base): an optional sign, for base 16 an optional 0x/0X prefix, then
\* at least one digit of the base; anything else raises ValueError
\* (ok = FALSE).  Whitespace and '_' are outside the modelled alphabet.
PyInt(s, base) == IntOfDigits(s, StripRadixPrefix(StripSign(s), base), base)

RECURSIVE DecDigits(_)
DecDigits(mag) ==
    IF mag = <<>> THEN <<>>
    ELSE LET dm == DivSmall(mag, 10)
         IN  DecDigits(Norm(dm.q)) \o <<DigitChars[dm.r + 1]>>

\* str(n)
PyStr(n) ==
    IF n.mag = <<>> THEN <<"0">>
    ELSE (IF n.neg THEN <<"-">> ELSE <<>>) \o DecDigits(n.mag)

\* An expansion that repeats the string instead of each character: s + s
Repeated(s) == s \o s

RECURSIVE Doubled(_)
\* ''.join(c + c for c in s)
Doubled(s) == IF s = <<>> THEN <<>> ELSE <<s[1], s[1]>> \o Doubled(Tail(s))

-----------------------------------------------------------------------------
(* parse_color *)

Raise == [ok |-> FALSE, v |-> Zero]
Return(v) == [ok |-> TRUE, v |-> v]

\* A packing that keeps the input's channel order: (a << 24) | (r << 16) | (g << 8) | b
PackARGB(a, b, g, r) ==
    BitOr(BitOr(BitOr(Shl8(a, 3), Shl8(r, 2)), Shl8(g, 1)), b)

\* (a << 24) | (b << 16) | (g << 8) | r
PackABGR(a, b, g, r) ==
    BitOr(BitOr(BitOr(Shl8(a, 3), Shl8(b, 2)), Shl8(g, 1)), r)

\* if len(hex_str) == n: hex_str = ''.join(c + c for c in hex_str)
DoubledIfLen(hex_str, n) == IF Len(hex_str) = n THEN Doubled(hex_str) ELSE hex_str

\* if len(hex_str) == 6: hex_str += 'FF'
WithOpaqueAlpha(hex_str) ==
    IF Len(hex_str) = 6 THEN hex_str \o <<"F", "F">> ELSE hex_str

\* return (a << 24) | (b << 16) | (g << 8) | r, once the four int() calls
\* have returned.
PackChannels(r, g, b, a) ==
    IF r.ok /\ g.ok /\ b.ok /\ a.ok
    THEN Return(PackABGR(a.v, b.v, g.v, r.v))
    ELSE Raise

\* r, g, b, a = int(hex_str[0:2], 16), ..., int(hex_str[6:8], 16)
HexChannels(hex_str) ==
    PackChannels(PyInt(Slice(hex_str, 0, 2), 16), PyInt(Slice(hex_str, 2, 4), 16),
                 PyInt(Slice(hex_str, 4, 6), 16), PyInt(Slice(hex_str, 6, 8), 16))

\* The '#' branch.
ParseHash(color_str) ==
    HexChannels(WithOpaqueAlpha(
        DoubledIfLen(DoubledIfLen(Slice(color_str, 1, Len(color_str)), 3), 4)))

\* a, r, g, b = (val >> 24) & 0xFF, ..., val & 0xFF, repacked.
Repacked(val) ==
    IF val.ok
    THEN Return(PackABGR(ByteAt(val.v, 3), ByteAt(val.v, 0),
                         ByteAt(val.v, 1), ByteAt(val.v, 2)))
    ELSE Raise

\* The '0x' / '0X' branch.
ParseZeroX(color_str) == Repacked(PyInt(color_str, 16))

\* A parse_color whose bare integers are taken for 0xAARRGGBB and converted too.
parse_color_converting(color_str) ==
    IF StartsWith(color_str, <<"#">>) THEN ParseHash(color_str)
    ELSE IF StartsWith(color_str, <<"0", "x">>) \/ StartsWith(color_str, <<"0", "X">>)
    THEN ParseZeroX(color_str)
    ELSE LET val == PyInt(color_str, 10)
         IN  IF val.ok /\ ~val.v.neg
             THEN Return(PackABGR(ByteAt(val.v, 3), ByteAt(val.v, 0),
                                  ByteAt(val.v, 1), ByteAt(val.v, 2)))
             ELSE val

parse_color(color_str) ==
    IF StartsWith(color_str, <<"#">>) THEN ParseHash(color_str)
    ELSE IF StartsWith(color_str, <<"0", "x">>) \/ StartsWith(color_str, <<"0", "X">>)
    THEN ParseZeroX(color_str)
    ELSE PyInt(color_str, 10)

-----------------------------------------------------------------------------
(* The colour literals explored *)

\* Two hexadecimal digits that differ and a character that is none.
HexAlphabet == {"1", "F", "g"}

RECURSIVE StringsUpTo(_, _)
\* Every string over the alphabet of at most n characters.
StringsUpTo(alphabet, n) ==
    IF n = 0 THEN {<<>>}
    ELSE LET shorter == StringsUpTo(alphabet, n - 1)
         IN  shorter \cup {<<c>> \o s : c \in alphabet, s \in {t \in shorter : Len(t) = n - 1}}

Prefixes == {<<"#">>, <<"0", "x">>, <<"0", "X">>}

\* Bare decimal literals: the colours a caller may already hold packed.
DecimalLiterals ==
    { <<"0">>, <<"2", "5", "5">>, <<"0", "0", "7">>, <<"-", "1">>, <<"+", "1">>,
      <<"4", "2", "7", "8", "1", "9", "0", "3", "3", "5">>,
      <<"4", "2", "9", "4", "9", "6", "7", "2", "9", "5">>,
      <<"4", "2", "9", "4", "9", "6", "7", "2", "9", "6">>,
      <<>>, <<"r", "e", "d">> }

\* The literals the documentation names.
ExampleLiterals ==
    { <<"#", "1", "1", "2", "2", "3", "3">>, <<"#", "f", "0", "0">>,
      <<"#", "f", "f", "0", "0", "0", "0">>,
      <<"0", "x", "F", "F", "1", "1", "2", "2", "3", "3">> }

ColorLiterals ==
    {p \o s : p \in Prefixes, s \in StringsUpTo(HexAlphabet, MaxHexLen)}
      \cup DecimalLiterals \cup ExampleLiterals

InitColor ==
    /\ literal \in ColorLiterals
    /\ color_pc = "call"
    /\ color_ret = Zero
    /\ color_again = Raise
    /\ AabbIdle /\ RecIdle /\ PackIdle /\ PrimIdle /\ RestIdle

\* One call parse_color(literal): it returns a value or raises.
ParseColor ==
    /\ color_pc = "call"
    /\ LET res == parse_color(literal)
       IN  /\ color_pc' = IF res.ok THEN "returned" ELSE "raised"
           /\ color_ret' = res.v
    /\ UNCHANGED <<literal, color_again, aabbVars, recVars, packVars, primVars, restVars>>

\* The caller feeds the packed value back: parse_color(str(color_ret)).
ReparseColor ==
    /\ color_pc = "returned"
    /\ color_again' = parse_color(PyStr(color_ret))
    /\ color_pc' = "reparsed"
    /\ UNCHANGED <<literal, color_ret, aabbVars, recVars, packVars, primVars, restVars>>

NextColor == ParseColor \/ ReparseColor

SpecColor == InitColor /\ [][NextColor]_vars

-----------------------------------------------------------------------------
(* compute_aabb *)

SDF_TYPE_CIRCLE == 0
SDF_TYPE_BOX == 1
SDF_TYPE_SEGMENT == 2
SDF_TYPE_TRIANGLE == 3
SDF_TYPE_BEZIER2 == 4
SDF_TYPE_BEZIER3 == 5
SDF_TYPE_ELLIPSE == 6
SDF_TYPE_ARC == 7
SDF_TYPE_ROUNDED_BOX == 8
SDF_TYPE_RHOMBUS == 9
SDF_TYPE_PENTAGON == 10
SDF_TYPE_HEXAGON == 11
SDF_TYPE_STAR == 12
SDF_TYPE_PIE == 13
SDF_TYPE_RING == 14
SDF_TYPE_HEART == 15
SDF_TYPE_CROSS == 16
SDF_TYPE_ROUNDED_X == 17
SDF_TYPE_CAPSULE == 18
SDF_TYPE_MOON == 19
SDF_TYPE_EGG == 20

\* A float of the ordinary range, and the two floats -1e10 and 1e10.
Num(q) == [e10 |-> 0, q |-> q]
NegE10 == [e10 |-> -1, q |-> 0]
PosE10 == [e10 |-> 1, q |-> 0]

\* The tuple (minX, minY, maxX, maxY).
Box4(x0, y0, x1, y1) == <<Num(x0), Num(y0), Num(x1), Num(y1)>>

\* params[i] of Python (0-based), as a count of quarters.
At(params, i) == params[i + 1].q

Min3(a, b, c) == Min2(Min2(a, b), c)
Max3(a, b, c) == Max2(Max2(a, b), c)
Max4(a, b, c, d) == Max2(Max2(a, b), Max2(c, d))

\* x * 0.5 and x * 1.5, exact on the even counts of quarters explored.
Half(x) == x \div 2
OneAndHalf(x) == (3 * x) \div 2

AabbCircle(params, expand) ==
    LET r == At(params, 2) + expand
    IN  Box4(At(params, 0) - r, At(params, 1) - r, At(params, 0) + r, At(params, 1) + r)

\* A box rule that forgets the corner rounding.
AabbBoxSharp(params, expand, corner_round) ==
    LET hw == At(params, 2) + expand
        hh == At(params, 3) + expand
    IN  Box4(At(params, 0) - hw, At(params, 1) - hh, At(params, 0) + hw, At(params, 1) + hh)

AabbBox(params, expand, corner_round) ==
    LET hw == At(params, 2) + corner_round + expand
        hh == At(params, 3) + corner_round + expand
    IN  Box4(At(params, 0) - hw, At(params, 1) - hh, At(params, 0) + hw, At(params, 1) + hh)

AabbSegment(params, expand) ==
    Box4(Min2(At(params, 0), At(params, 2)) - expand,
         Min2(At(params, 1), At(params, 3)) - expand,
         Max2(At(params, 0), At(params, 2)) + expand,
         Max2(At(params, 1), At(params, 3)) + expand)

AabbTriangle(params, expand) ==
    Box4(Min3(At(params, 0), At(params, 2), At(params, 4)) - expand,
         Min3(At(params, 1), At(params, 3), At(params, 5)) - expand,
         Max3(At(params, 0), At(params, 2), At(params, 4)) + expand,
         Max3(At(params, 1), At(params, 3), At(params, 5)) + expand)

AabbBezier2(params, expand) ==
    Box4(Min3(At(params, 0), At(params, 2), At(params, 4)) - expand,
         Min3(At(params, 1), At(params, 3), At(params, 5)) - expand,
         Max3(At(params, 0), At(params, 2), At(params, 4)) + expand,
         Max3(At(params, 1), At(params, 3), At(params, 5)) + expand)

AabbEllipse(params, expand) ==
    Box4(At(params, 0) - At(params, 2) - expand,
         At(params, 1) - At(params, 3) - expand,
         At(params, 0) + At(params, 2) + expand,
         At(params, 1) + At(params, 3) + expand)

AabbArc(params, expand) ==
    LET r == Max2(At(params, 4), At(params, 5)) + expand
    IN  Box4(At(params, 0) - r, At(params, 1) - r, At(params, 0) + r, At(params, 1) + r)

AabbRoundedBox(params, expand) ==
    LET max_r == IF Len(params) > 7
                 THEN Max4(At(params, 4), At(params, 5), At(params, 6), At(params, 7))
                 ELSE 0
        hw == At(params, 2) + max_r + expand
        hh == At(params, 3) + max_r + expand
    IN  Box4(At(params, 0) - hw, At(params, 1) - hh, At(params, 0) + hw, At(params, 1) + hh)

AabbRhombus(params, expand) ==
    LET hw == At(params, 2) + expand
        hh == At(params, 3) + expand
    IN  Box4(At(params, 0) - hw, At(params, 1) - hh, At(params, 0) + hw, At(params, 1) + hh)

AabbPolygon(params, expand) ==
    LET r == At(params, 2) + expand
    IN  Box4(At(params, 0) - r, At(params, 1) - r, At(params, 0) + r, At(params, 1) + r)

AabbStar(params, expand) ==
    LET r == At(params, 2) + expand
    IN  Box4(At(params, 0) - r, At(params, 1) - r, At(params, 0) + r, At(params, 1) + r)

AabbPie(params, expand) ==
    LET r == At(params, 4) + expand
    IN  Box4(At(params, 0) - r, At(params, 1) - r, At(params, 0) + r, At(params, 1) + r)

AabbRing(params, expand) ==
    LET r == At(params, 4) + At(params, 5) + expand
    IN  Box4(At(params, 0) - r, At(params, 1) - r, At(params, 0) + r, At(params, 1) + r)

\* A heart rule that scales the stroke along with the shape.
AabbHeartScaledStroke(params, expand) ==
    LET s == OneAndHalf(At(params, 2) + expand)
    IN  Box4(At(params, 0) - s, At(params, 1) - s, At(params, 0) + s, At(params, 1) + s)

AabbHeart(params, expand) ==
    LET s == OneAndHalf(At(params, 2)) + expand
    IN  Box4(At(params, 0) - s, At(params, 1) - s, At(params, 0) + s, At(params, 1) + s)

AabbCross(params, expand) ==
    LET hw == Max2(At(params, 2), At(params, 3)) + expand
    IN  Box4(At(params, 0) - hw, At(params, 1) - hw, At(params, 0) + hw, At(params, 1) + hw)

AabbRoundedX(params, expand) ==
    LET s == At(params, 2) + At(params, 3) + expand
    IN  Box4(At(params, 0) - s, At(params, 1) - s, At(params, 0) + s, At(params, 1) + s)

AabbCapsule(params, expand) ==
    LET r == At(params, 4) + expand
    IN  Box4(Min2(At(params, 0), At(params, 2)) - r,
             Min2(At(params, 1), At(params, 3)) - r,
             Max2(At(params, 0), At(params, 2)) + r,
             Max2(At(params, 1), At(params, 3)) + r)

\* A moon rule made symmetric: the distance is added on both X sides.
AabbMoonSymmetric(params, expand) ==
    LET r == Max2(At(params, 3), At(params, 4)) + expand
    IN  Box4(At(params, 0) - r - At(params, 2), At(params, 1) - r,
             At(params, 0) + r + At(params, 2), At(params, 1) + r)

AabbMoon(params, expand) ==
    LET r == Max2(At(params, 3), At(params, 4)) + expand
    IN  Box4(At(params, 0) - r, At(params, 1) - r,
             At(params, 0) + r + At(params, 2), At(params, 1) + r)

AabbEgg(params, expand) ==
    LET r == Max2(At(params, 2), At(params, 3)) + expand
    IN  Box4(At(params, 0) - r, At(params, 1) - r,
             At(params, 0) + r, At(params, 1) + r + At(params, 2))

\* An empty box for the unknown: always culled instead of always visible.
AabbDegenerate == <<Num(0), Num(0), Num(0), Num(0)>>

AabbUnbounded == <<NegE10, NegE10, PosE10, PosE10>>

compute_aabb(prim_type, params, stroke_width, corner_round) ==
    LET expand == Half(stroke_width)
    IN  IF prim_type = SDF_TYPE_CIRCLE THEN AabbCircle(params, expand)
        ELSE IF prim_type = SDF_TYPE_BOX THEN AabbBox(params, expand, corner_round)
        ELSE IF prim_type = SDF_TYPE_SEGMENT THEN AabbSegment(params, expand)
        ELSE IF prim_type = SDF_TYPE_TRIANGLE THEN AabbTriangle(params, expand)
        ELSE IF prim_type = SDF_TYPE_BEZIER2 THEN AabbBezier2(params, expand)
        ELSE IF prim_type = SDF_TYPE_ELLIPSE THEN AabbEllipse(params, expand)
        ELSE IF prim_type = SDF_TYPE_ARC THEN AabbArc(params, expand)
        ELSE IF prim_type = SDF_TYPE_ROUNDED_BOX THEN AabbRoundedBox(params, expand)
        ELSE IF prim_type = SDF_TYPE_RHOMBUS THEN AabbRhombus(params, expand)
        ELSE IF prim_type \in {SDF_TYPE_PENTAGON, SDF_TYPE_HEXAGON}
             THEN AabbPolygon(params, expand)
        ELSE IF prim_type = SDF_TYPE_STAR THEN AabbStar(params, expand)
        ELSE IF prim_type = SDF_TYPE_PIE THEN AabbPie(params, expand)
        ELSE IF prim_type = SDF_TYPE_RING THEN AabbRing(params, expand)
        ELSE IF prim_type = SDF_TYPE_HEART THEN AabbHeart(params, expand)
        ELSE IF prim_type = SDF_TYPE_CROSS THEN AabbCross(params, expand)
        ELSE IF prim_type = SDF_TYPE_ROUNDED_X THEN AabbRoundedX(params, expand)
        ELSE IF prim_type = SDF_TYPE_CAPSULE THEN AabbCapsule(params, expand)
        ELSE IF prim_type = SDF_TYPE_MOON THEN AabbMoon(params, expand)
        ELSE IF prim_type = SDF_TYPE_EGG THEN AabbEgg(params, expand)
        ELSE AabbUnbounded

-----------------------------------------------------------------------------
(* The compute_aabb calls explored *)

\* Multiples of 1/2, negative and positive: -1/2, 1, 5/2, ...
ParamValues == {Num(2 * (3 * i - 1)) : i \in 0..MaxValIdx}
\* Whole stroke widths 0, 1, 2, ... and corner roundings 0, 1/2, 1, ...
StrokeValues == {4 * i : i \in 0..MaxStrokeIdx}
RoundValues == {2 * i : i \in 0..MaxRoundIdx}

\* The type tags called with: the 21 declared ones and those above.
TypeTags == 0..MaxTypeTag

\* How many parameters a caller passes for each tag (parse_primitive's
\* lists; a rounded box with or without its four radii; an unknown tag with
\* no parameters or some).
ParamCounts(prim_type) ==
    IF prim_type \in {SDF_TYPE_CIRCLE, SDF_TYPE_PENTAGON, SDF_TYPE_HEXAGON, SDF_TYPE_HEART}
    THEN {3}
    ELSE IF prim_type \in {SDF_TYPE_BOX, SDF_TYPE_SEGMENT, SDF_TYPE_ELLIPSE,
                           SDF_TYPE_RHOMBUS, SDF_TYPE_ROUNDED_X, SDF_TYPE_EGG}
    THEN {4}
    ELSE IF prim_type \in {SDF_TYPE_STAR, SDF_TYPE_PIE, SDF_TYPE_CROSS,
                           SDF_TYPE_CAPSULE, SDF_TYPE_MOON}
    THEN {5}
    ELSE IF prim_type \in {SDF_TYPE_TRIANGLE, SDF_TYPE_BEZIER2, SDF_TYPE_ARC, SDF_TYPE_RING}
    THEN {6}
    ELSE IF prim_type = SDF_TYPE_BEZIER3 THEN {8}
    ELSE IF prim_type = SDF_TYPE_ROUNDED_BOX THEN {4, 8}
    ELSE {0, 3}

InitAabb ==
    /\ aabb_pc = "call"
    /\ \E t \in TypeTags : \E n \in ParamCounts(t) :
         aabb_args \in [prim_type : {t}, params : [1..n -> ParamValues],
                        stroke_width : StrokeValues, corner_round : RoundValues]
    /\ aabb_ret = <<>>
    /\ ColorIdle /\ RecIdle /\ PackIdle /\ PrimIdle /\ RestIdle

\* One call compute_aabb(prim_type, params, stroke_width, corner_round).
ComputeAabb ==
    /\ aabb_pc = "call"
    /\ aabb_ret' = compute_aabb(aabb_args.prim_type, aabb_args.params,
                                aabb_args.stroke_width, aabb_args.corner_round)
    /\ aabb_pc' = "returned"
    /\ UNCHANGED <<aabb_args, colorVars, recVars, packVars, primVars, restVars>>

NextAabb == ComputeAabb

SpecAabb == InitAabb /\ [][NextAabb]_vars

-----------------------------------------------------------------------------
(* struct.pack and pack_sdf_primitive *)

\* What a function that builds bytes yields: the words, or an exception.
Bytes(data) == [ok |-> TRUE, data |-> data]
Failed == [ok |-> FALSE, data |-> <<>>]

\* struct.pack('<I', v) accepts 0 <= v < 2^32 and nothing else.
FitsU32(v) == ~v.neg /\ Len(v.mag) <= 4

\* The four little-endian bytes of a u32.
U32Word(v) ==
    [fmt |-> "I", val |-> [i \in 1..4 |-> IF i <= Len(v.mag) THEN v.mag[i] ELSE 0]]

\* struct.pack('<f', x); the rounding to 32 bits is not modelled.
F32Word(x) == [fmt |-> "f", val |-> x]

\* The geometry slots of a record: '12f' in the format string.
PARAM_SLOTS == 12

\* A packing with the two colour words exchanged.
pack_sdf_primitive_stroke_first(prim_type, layer, params, fill_color, stroke_color, stroke_width, corner_round, aabb) ==
    LET params_padded ==
            params \o [i \in 1..(PARAM_SLOTS - Len(params)) |-> Num(0)]
    IN  IF /\ Len(params_padded) = PARAM_SLOTS
           /\ FitsU32(FromNat(prim_type)) /\ FitsU32(FromNat(layer))
           /\ FitsU32(fill_color) /\ FitsU32(stroke_color)
        THEN Bytes(<<U32Word(FromNat(prim_type)), U32Word(FromNat(layer))>>
                   \o [i \in 1..PARAM_SLOTS |-> F32Word(params_padded[i])]
                   \o <<U32Word(stroke_color), U32Word(fill_color),
                        F32Word(Num(stroke_width)), F32Word(Num(corner_round))>>
                   \o [i \in 1..4 |-> F32Word(aabb[i])]
                   \o <<U32Word(Zero), U32Word(Zero)>>)
        ELSE Failed

\* A packing without the two reserved words: 88 bytes.
pack_sdf_primitive_unpadded(prim_type, layer, params, fill_color, stroke_color, stroke_width, corner_round, aabb) ==
    LET params_padded ==
            params \o [i \in 1..(PARAM_SLOTS - Len(params)) |-> Num(0)]
    IN  IF /\ Len(params_padded) = PARAM_SLOTS
           /\ FitsU32(FromNat(prim_type)) /\ FitsU32(FromNat(layer))
           /\ FitsU32(fill_color) /\ FitsU32(stroke_color)
        THEN Bytes(<<U32Word(FromNat(prim_type)), U32Word(FromNat(layer))>>
                   \o [i \in 1..PARAM_SLOTS |-> F32Word(params_padded[i])]
                   \o <<U32Word(fill_color), U32Word(stroke_color),
                        F32Word(Num(stroke_width)), F32Word(Num(corner_round))>>
                   \o [i \in 1..4 |-> F32Word(aabb[i])])
        ELSE Failed

pack_sdf_primitive(prim_type, layer, params, fill_color, stroke_color, stroke_width, corner_round, aabb) ==
    LET params_padded ==
            params \o [i \in 1..(PARAM_SLOTS - Len(params)) |-> Num(0)]
    IN  IF /\ Len(params_padded) = PARAM_SLOTS
           /\ FitsU32(FromNat(prim_type)) /\ FitsU32(FromNat(layer))
           /\ FitsU32(fill_color) /\ FitsU32(stroke_color)
        THEN Bytes(<<U32Word(FromNat(prim_type)), U32Word(FromNat(layer))>>
                   \o [i \in 1..PARAM_SLOTS |-> F32Word(params_padded[i])]
                   \o <<U32Word(fill_color), U32Word(stroke_color),
                        F32Word(Num(stroke_width)), F32Word(Num(corner_round))>>
                   \o [i \in 1..4 |-> F32Word(aabb[i])]
                   \o <<U32Word(Zero), U32Word(Zero)>>)
        ELSE Failed

-----------------------------------------------------------------------------
(* parse_primitive *)

\* The whole number n, in quarters.
Q(n) == 4 * n

\* d.get(k, default)
Get(d, k, default) == IF k \in DOMAIN d THEN d[k] ELSE default

WHITE == <<"#", "f", "f", "f", "f", "f", "f">>
RED == <<"#", "f", "f", "0", "0", "0", "0">>

\* math.sin and math.cos of an angle given in degrees: floats the codec only
\* stores, never computes with.
SinDeg(angle) == [fn |-> "sin", deg |-> angle]
CosDeg(angle) == [fn |-> "cos", deg |-> angle]

\* fill_color = parse_color(c.get('fill', default))
Fill(c, default) == parse_color(Get(c, "fill", default))
\* if 'stroke' in c: stroke_color = parse_color(c['stroke'])   (else it stays 0)
Stroke(c) == IF "stroke" \in DOMAIN c THEN parse_color(c["stroke"]) ELSE Return(Zero)
\* if 'stroke' in c: ... else: stroke_color = parse_color('#ffffff')
StrokeOrWhite(c) ==
    IF "stroke" \in DOMAIN c THEN parse_color(c["stroke"]) ELSE parse_color(WHITE)
\* fill_color stays 0
NoFill == Return(Zero)

Fields(prim_type, params, fill, stroke, stroke_width, corner_round) ==
    [prim_type |-> prim_type, params |-> params, fill |-> fill, stroke |-> stroke,
     stroke_width |-> stroke_width, corner_round |-> corner_round]

Pt(d, k, x, y) == Get(d, k, <<Q(x), Q(y)>>)

\* A circle whose radius defaults to 1 instead of 10.
PrimCircleUnitRadius(c) ==
    LET pos == Pt(c, "position", 0, 0)
    IN  Fields(SDF_TYPE_CIRCLE,
               <<Num(pos[1]), Num(pos[2]), Num(Get(c, "radius", Q(1)))>>,
               Fill(c, WHITE), Stroke(c), Get(c, "stroke-width", 0), 0)

PrimCircle(c) ==
    LET pos == Pt(c, "position", 0, 0)
    IN  Fields(SDF_TYPE_CIRCLE,
               <<Num(pos[1]), Num(pos[2]), Num(Get(c, "radius", Q(10)))>>,
               Fill(c, WHITE), Stroke(c), Get(c, "stroke-width", 0), 0)

PrimBox(b) ==
    LET pos  == Pt(b, "position", 0, 0)
        size == Pt(b, "size", 20, 20)
    IN  Fields(SDF_TYPE_BOX,
               <<Num(pos[1]), Num(pos[2]), Num(Half(size[1])), Num(Half(size[2]))>>,
               Fill(b, WHITE), Stroke(b), Get(b, "stroke-width", 0), Get(b, "round", 0))

\* A segment that parses a fill as the filled kinds do.
PrimSegmentFilled(s) ==
    LET p0 == Pt(s, "from", 0, 0)
        p1 == Pt(s, "to", 100, 100)
    IN  Fields(SDF_TYPE_SEGMENT,
               <<Num(p0[1]), Num(p0[2]), Num(p1[1]), Num(p1[2])>>,
               Fill(s, WHITE), StrokeOrWhite(s), Get(s, "stroke-width", Q(1)), 0)

PrimSegment(s) ==
    LET p0 == Pt(s, "from", 0, 0)
        p1 == Pt(s, "to", 100, 100)
    IN  Fields(SDF_TYPE_SEGMENT,
               <<Num(p0[1]), Num(p0[2]), Num(p1[1]), Num(p1[2])>>,
               NoFill, StrokeOrWhite(s), Get(s, "stroke-width", Q(1)), 0)

PrimTriangle(t) ==
    LET p0 == Pt(t, "p0", 0, 0)
        p1 == Pt(t, "p1", 50, 100)
        p2 == Pt(t, "p2", 100, 0)
    IN  Fields(SDF_TYPE_TRIANGLE,
               <<Num(p0[1]), Num(p0[2]), Num(p1[1]), Num(p1[2]), Num(p2[1]), Num(p2[2])>>,
               Fill(t, WHITE), Stroke(t), Get(t, "stroke-width", 0), 0)

PrimEllipse(e) ==
    LET pos   == Pt(e, "position", 0, 0)
        radii == Pt(e, "radii", 20, 10)
    IN  Fields(SDF_TYPE_ELLIPSE,
               <<Num(pos[1]), Num(pos[2]), Num(radii[1]), Num(radii[2])>>,
               Fill(e, WHITE), Stroke(e), Get(e, "stroke-width", 0), 0)

PrimBezier(b) ==
    LET p0 == Pt(b, "p0", 0, 0)
        p1 == Pt(b, "p1", 50, 50)
        p2 == Pt(b, "p2", 100, 0)
    IN  Fields(SDF_TYPE_BEZIER2,
               <<Num(p0[1]), Num(p0[2]), Num(p1[1]), Num(p1[2]), Num(p2[1]), Num(p2[2])>>,
               NoFill, StrokeOrWhite(b), Get(b, "stroke-width", Q(1)), 0)

PrimArc(a) ==
    LET pos   == Pt(a, "position", 0, 0)
        angle == Get(a, "angle", Q(90))
        ra    == Get(a, "radius", Q(20))
        rb    == Get(a, "thickness", Q(2))
    IN  Fields(SDF_TYPE_ARC,
               <<Num(pos[1]), Num(pos[2]), SinDeg(angle), CosDeg(angle), Num(ra), Num(rb)>>,
               Fill(a, WHITE), StrokeOrWhite(a), Get(a, "stroke-width", 0), 0)

PrimPentagon(p) ==
    LET pos == Pt(p, "position", 0, 0)
    IN  Fields(SDF_TYPE_PENTAGON,
               <<Num(pos[1]), Num(pos[2]), Num(Get(p, "radius", Q(20)))>>,
               Fill(p, WHITE), Stroke(p), Get(p, "stroke-width", 0), 0)

PrimHexagon(h) ==
    LET pos == Pt(h, "position", 0, 0)
    IN  Fields(SDF_TYPE_HEXAGON,
               <<Num(pos[1]), Num(pos[2]), Num(Get(h, "radius", Q(20)))>>,
               Fill(h, WHITE), Stroke(h), Get(h, "stroke-width", 0), 0)

PrimStar(s) ==
    LET pos == Pt(s, "position", 0, 0)
        r   == Get(s, "radius", Q(20))
        n   == Get(s, "points", Q(5))
        m   == Get(s, "inner", 10)
    IN  Fields(SDF_TYPE_STAR,
               <<Num(pos[1]), Num(pos[2]), Num(r), Num(n), Num(m)>>,
               Fill(s, WHITE), Stroke(s), Get(s, "stroke-width", 0), 0)

PrimPie(p) ==
    LET pos   == Pt(p, "position", 0, 0)
        angle == Get(p, "angle", Q(45))
        r     == Get(p, "radius", Q(20))
    IN  Fields(SDF_TYPE_PIE,
               <<Num(pos[1]), Num(pos[2]), SinDeg(angle), CosDeg(angle), Num(r)>>,
               Fill(p, WHITE), Stroke(p), Get(p, "stroke-width", 0), 0)

PrimRing(rg) ==
    LET pos   == Pt(rg, "position", 0, 0)
        angle == Get(rg, "angle", 0)
        r     == Get(rg, "radius", Q(20))
        th    == Get(rg, "thickness", Q(4))
    IN  Fields(SDF_TYPE_RING,
               <<Num(pos[1]), Num(pos[2]), SinDeg(angle), CosDeg(angle), Num(r), Num(th)>>,
               Fill(rg, WHITE), Stroke(rg), Get(rg, "stroke-width", 0), 0)

PrimHeart(h) ==
    LET pos == Pt(h, "position", 0, 0)
    IN  Fields(SDF_TYPE_HEART,
               <<Num(pos[1]), Num(pos[2]), Num(Get(h, "scale", Q(20)))>>,
               Fill(h, RED), Stroke(h), Get(h, "stroke-width", 0), 0)

PrimCross(c) ==
    LET pos  == Pt(c, "position", 0, 0)
        size == Pt(c, "size", 20, 5)
        r    == Get(c, "round", 0)
    IN  Fields(SDF_TYPE_CROSS,
               <<Num(pos[1]), Num(pos[2]), Num(size[1]), Num(size[2]), Num(r)>>,
               Fill(c, WHITE), Stroke(c), Get(c, "stroke-width", 0), 0)

PrimRoundedX(x) ==
    LET pos == Pt(x, "position", 0, 0)
        w   == Get(x, "width", Q(20))
        r   == Get(x, "round", Q(3))
    IN  Fields(SDF_TYPE_ROUNDED_X,
               <<Num(pos[1]), Num(pos[2]), Num(w), Num(r)>>,
               Fill(x, WHITE), Stroke(x), Get(x, "stroke-width", 0), 0)

PrimCapsule(c) ==
    LET p0 == Pt(c, "from", 0, 0)
        p1 == Pt(c, "to", 100, 0)
        r  == Get(c, "radius", Q(10))
    IN  Fields(SDF_TYPE_CAPSULE,
               <<Num(p0[1]), Num(p0[2]), Num(p1[1]), Num(p1[2]), Num(r)>>,
               Fill(c, WHITE), Stroke(c), Get(c, "stroke-width", 0), 0)

PrimRhombus(r) ==
    LET pos  == Pt(r, "position", 0, 0)
        size == Pt(r, "size", 20, 30)
    IN  Fields(SDF_TYPE_RHOMBUS,
               <<Num(pos[1]), Num(pos[2]), Num(size[1]), Num(size[2])>>,
               Fill(r, WHITE), Stroke(r), Get(r, "stroke-width", 0), 0)

PrimMoon(m) ==
    LET pos == Pt(m, "position", 0, 0)
        d   == Get(m, "distance", Q(10))
        ra  == Get(m, "radius_outer", Q(20))
        rb  == Get(m, "radius_inner", Q(15))
    IN  Fields(SDF_TYPE_MOON,
               <<Num(pos[1]), Num(pos[2]), Num(d), Num(ra), Num(rb)>>,
               Fill(m, WHITE), Stroke(m), Get(m, "stroke-width", 0), 0)

PrimEgg(e) ==
    LET pos == Pt(e, "position", 0, 0)
        ra  == Get(e, "radius_bottom", Q(20))
        rb  == Get(e, "radius_top", Q(10))
    IN  Fields(SDF_TYPE_EGG,
               <<Num(pos[1]), Num(pos[2]), Num(ra), Num(rb)>>,
               Fill(e, WHITE), Stroke(e), Get(e, "stroke-width", 0), 0)

\* The kind names of the if/elif chain, in its order.
KindNames ==
    <<"circle", "box", "segment", "triangle", "ellipse", "bezier", "arc", "pentagon",
      "hexagon", "star", "pie", "ring", "heart", "cross", "rounded_x", "capsule",
      "rhombus", "moon", "egg">>

\* The first kind of the chain that is a key of prim_dict, or 0.
FirstKind(prim_dict) ==
    LET hits == {i \in 1..Len(KindNames) : KindNames[i] \in DOMAIN prim_dict}
    IN  IF hits = {} THEN 0 ELSE CHOOSE i \in hits : \A j \in hits : i <= j

\* The branch of the chain taken for the kind name.
Branch(name, d) ==
    CASE name = "circle"    -> PrimCircle(d)
      [] name = "box"       -> PrimBox(d)
      [] name = "segment"   -> PrimSegment(d)
      [] name = "triangle"  -> PrimTriangle(d)
      [] name = "ellipse"   -> PrimEllipse(d)
      [] name = "bezier"    -> PrimBezier(d)
      [] name = "arc"       -> PrimArc(d)
      [] name = "pentagon"  -> PrimPentagon(d)
      [] name = "hexagon"   -> PrimHexagon(d)
      [] name = "star"      -> PrimStar(d)
      [] name = "pie"       -> PrimPie(d)
      [] name = "ring"      -> PrimRing(d)
      [] name = "heart"     -> PrimHeart(d)
      [] name = "cross"     -> PrimCross(d)
      [] name = "rounded_x" -> PrimRoundedX(d)
      [] name = "capsule"   -> PrimCapsule(d)
      [] name = "rhombus"   -> PrimRhombus(d)
      [] name = "moon"      -> PrimMoon(d)
      [] name = "egg"       -> PrimEgg(d)

\* aabb = compute_aabb(...); return pack_sdf_primitive(...), for the locals f
\* the branch left; a colour that did not parse has raised before.
PackFields(f, layer) ==
    IF ~f.fill.ok \/ ~f.stroke.ok THEN Failed
    ELSE pack_sdf_primitive(
             f.prim_type, layer, f.params, f.fill.v, f.stroke.v,
             f.stroke_width, f.corner_round,
             compute_aabb(f.prim_type, f.params, f.stroke_width, f.corner_round))

\* The 96 bytes of a primitive, b'' for a dictionary of no known kind, or
\* the exception parse_color or struct.pack raises.
parse_primitive(prim_dict, layer) ==
    LET k == FirstKind(prim_dict)
    IN  IF k = 0 THEN Bytes(<<>>)
        ELSE PackFields(Branch(KindNames[k], prim_dict[KindNames[k]]), layer)

-----------------------------------------------------------------------------
(* The pack_sdf_primitive calls explored *)

\* 0xFF0000FF and 0x8000FF00, two colours that differ in every byte.
RecFill == [neg |-> FALSE, mag |-> <<255, 0, 0, 255>>]
RecStroke == [neg |-> FALSE, mag |-> <<0, 255, 0, 128>>]

\* Parameter lists of 0 .. 12 numbers, and of one more than a record holds.
RecParams == UNION {[1..n -> {Num(2), Num(-6)}] : n \in 0..(PARAM_SLOTS + 1)}

InitRecord ==
    /\ rec_pc = "call"
    /\ rec_args \in [prim_type : {SDF_TYPE_CIRCLE, SDF_TYPE_EGG}, layer : {0, 7},
                      params : RecParams, fill_color : {RecFill},
                      stroke_color : {RecStroke}, stroke_width : {Q(1)},
                      corner_round : {2}, aabb : {Box4(-6, -2, 6, 10)}]
    /\ rec_ret = <<>>
    /\ ColorIdle /\ AabbIdle /\ PackIdle /\ PrimIdle /\ RestIdle

\* One call pack_sdf_primitive(...): it returns 96 bytes or struct.pack raises.
PackRecord ==
    /\ rec_pc = "call"
    /\ LET res == pack_sdf_primitive(rec_args.prim_type, rec_args.layer, rec_args.params,
                                     rec_args.fill_color, rec_args.stroke_color,
                                     rec_args.stroke_width, rec_args.corner_round,
                                     rec_args.aabb)
       IN  /\ rec_pc' = IF res.ok THEN "returned" ELSE "raised"
           /\ rec_ret' = res.data
    /\ UNCHANGED <<rec_args, colorVars, aabbVars, packVars, primVars, restVars>>

NextRecord == PackRecord

SpecRecord == InitRecord /\ [][NextRecord]_vars

-----------------------------------------------------------------------------
(* parse_yaml_to_binary *)

\* bg_color = 0xFF2E1A1A
DEFAULT_BG == [neg |-> FALSE, mag |-> <<26, 26, 46, 255>>]

\* The state of the walk: the locals layer and primitives, and whether an
\* exception is propagating.
Walk(ok, layer, prims) == [ok |-> ok, layer |-> layer, primitives |-> prims]

\* if data: primitives.append(data); layer += 1   (data: what parse_primitive
\* returned, or the exception it raised)
Appended(data, st) ==
    IF ~data.ok THEN Walk(FALSE, st.layer, st.primitives)
    ELSE IF data.data # <<>>
    THEN Walk(TRUE, st.layer + 1, Append(st.primitives, data.data))
    ELSE st

\* An Emit whose skipped entries consume a layer index all the same.
EmitCountingSkipped(prim, st) ==
    LET data == parse_primitive(prim, st.layer)
    IN  IF ~data.ok THEN Walk(FALSE, st.layer, st.primitives)
        ELSE IF data.data # <<>>
        THEN Walk(TRUE, st.layer + 1, Append(st.primitives, data.data))
        ELSE Walk(TRUE, st.layer + 1, st.primitives)

\* data = parse_primitive(prim, layer)
\* if data: primitives.append(data); layer += 1
Emit(prim, st) == Appended(parse_primitive(prim, st.layer), st)

RECURSIVE EmitBody(_, _)
\* for prim in body: ...
EmitBody(body, st) ==
    IF body = <<>> \/ ~st.ok THEN st
    ELSE EmitBody(Tail(body), Emit(body[1], st))

RECURSIVE EmitDirect(_, _)
RECURSIVE EmitContainers(_, _)
\* A walk that takes the list's direct primitives first and its containers after.
EmitDirect(items, st) ==
    IF items = <<>> \/ ~st.ok THEN st
    ELSE LET item == items[1]
         IN  EmitDirect(Tail(items),
                        IF item.ty = "dict" /\ "body" \notin DOMAIN item.val
                        THEN Emit(item.val, st) ELSE st)
EmitContainers(items, st) ==
    IF items = <<>> \/ ~st.ok THEN st
    ELSE LET item == items[1]
         IN  EmitContainers(Tail(items),
                            IF item.ty = "dict" /\ "body" \in DOMAIN item.val
                            THEN EmitBody(item.val["body"], st) ELSE st)
EmitItemsGrouped(items, st) == EmitContainers(items, EmitDirect(items, st))

\* One item of a list document: a container's body, a direct primitive, or
\* an item that is no dictionary and is passed over.
EmitItem(item, st) ==
    IF item.ty = "dict"
    THEN IF "body" \in DOMAIN item.val
         THEN EmitBody(item.val["body"], st)
         ELSE Emit(item.val, st)
    ELSE st

RECURSIVE EmitItems(_, _)
\* for item in doc: ...
EmitItems(items, st) ==
    IF items = <<>> \/ ~st.ok THEN st
    ELSE EmitItems(Tail(items), EmitItem(items[1], st))

\* A flag table with the bits of show_tiles and show_eval_count exchanged.
FlagBitSwapped(flag) ==
    IF flag = "show_bounds" THEN 1
    ELSE IF flag = "show_tiles" \/ flag = "show_grid" THEN 4
    ELSE IF flag = "show_eval_count" THEN 2
    ELSE 0

\* One flag of the flag list.
FlagBit(flag) ==
    IF flag = "show_bounds" THEN 1
    ELSE IF flag = "show_tiles" \/ flag = "show_grid" THEN 2
    ELSE IF flag = "show_eval_count" THEN 4
    ELSE 0

RECURSIVE OrFlags(_, _)
\* for flag in flag_list: flags |= ...
OrFlags(flag_list, acc) ==
    IF flag_list = <<>> THEN acc
    ELSE OrFlags(Tail(flag_list), BitOrNat(acc, FlagBit(flag_list[1])))

\* if isinstance(flag_list, str): flag_list = [flag_list]
FlagList(v) == IF "str" \in DOMAIN v THEN <<v.str>> ELSE v.list

\* if not doc
Falsy(doc) ==
    \/ doc.ty = "none"
    \/ doc.ty = "list" /\ doc.items = <<>>
    \/ doc.ty = "dict" /\ DOMAIN doc.val = {}

\* The primitives of one document: a list's items, a mapping's body.
DocPrimitives(doc, st0) ==
    IF Falsy(doc) THEN st0
    ELSE IF doc.ty = "list" THEN EmitItems(doc.items, st0)
    ELSE IF doc.ty = "dict" /\ "body" \in DOMAIN doc.val
    THEN EmitBody(doc.val["body"], st0)
    ELSE st0

\* if 'background' in doc: bg_color = parse_color(doc['background'])
DocBackground(doc, bg) ==
    IF ~Falsy(doc) /\ doc.ty = "dict" /\ "background" \in DOMAIN doc.val
    THEN parse_color(doc.val["background"])
    ELSE Return(bg)

\* `for flag in flag_list` accepts a string (wrapped in a list first) and a
\* list; on None or a number it raises TypeError.
Iterable(v) == "str" \in DOMAIN v \/ "list" \in DOMAIN v

\* if 'flags' in doc: ...   (the flags after it, or the exception)
DocFlags(doc, fl) ==
    IF ~Falsy(doc) /\ doc.ty = "dict" /\ "flags" \in DOMAIN doc.val
    THEN IF Iterable(doc.val["flags"])
         THEN [ok |-> TRUE, v |-> OrFlags(FlagList(doc.val["flags"]), fl)]
         ELSE [ok |-> FALSE, v |-> fl]
    ELSE [ok |-> TRUE, v |-> fl]

\* The locals after the iteration, or the exception leaving the function.
EndIteration(st, bg, fl) ==
    IF st.ok /\ bg.ok /\ fl.ok
    THEN /\ layer_n' = st.layer
         /\ primitives' = st.primitives
         /\ bg_color' = bg.v
         /\ flags' = fl.v
         /\ doc_i' = doc_i + 1
         /\ pack_pc' = "loop"
    ELSE /\ pack_pc' = "raised"
         /\ UNCHANGED <<layer_n, primitives, bg_color, flags, doc_i>>

\* One iteration of `for doc in docs`.
VisitDoc ==
    /\ pack_pc = "loop"
    /\ doc_i < Len(docs)
    /\ EndIteration(DocPrimitives(docs[doc_i + 1], Walk(TRUE, layer_n, primitives)),
                    DocBackground(docs[doc_i + 1], bg_color),
                    DocFlags(docs[doc_i + 1], flags))
    /\ UNCHANGED <<docs, pack_ret, colorVars, aabbVars, recVars, primVars, restVars>>

RECURSIVE Join(_)
\* b''.join(primitives)
Join(chunks) == IF chunks = <<>> THEN <<>> ELSE chunks[1] \o Join(Tail(chunks))

\* header = struct.pack('<IIII', 1, len(primitives), bg_color, flags)
\* return header + b''.join(primitives), bg_color, flags
PackHeader ==
    /\ pack_pc = "loop"
    /\ doc_i = Len(docs)
    /\ IF FitsU32(bg_color)
       THEN /\ pack_ret' = <<U32Word(FromNat(1)), U32Word(FromNat(Len(primitives))),
                             U32Word(bg_color), U32Word(FromNat(flags))>>
                           \o Join(primitives)
            /\ pack_pc' = "done"
       ELSE /\ pack_pc' = "raised"
            /\ UNCHANGED pack_ret
    /\ UNCHANGED <<docs, doc_i, layer_n, primitives, bg_color, flags,
                   colorVars, aabbVars, recVars, primVars, restVars>>

-----------------------------------------------------------------------------
(* The YAML streams explored *)

GREEN == <<"#", "0", "0", "f", "f", "0", "0">>

\* {circle: {position: [10, 20], radius: 5, fill: "#ff0000"}}
EntryCircle ==
    "circle" :> ("position" :> <<Q(10), Q(20)>> @@ "radius" :> Q(5) @@ "fill" :> RED)
\* {unknown_kind: {}}
EntryUnknown == "unknown_kind" :> <<>>
\* {box: {position: [0, 0], size: [4, 4], fill: "#00ff00"}}
EntryBox ==
    "box" :> ("position" :> <<0, 0>> @@ "size" :> <<Q(4), Q(4)>> @@ "fill" :> GREEN)
\* {circle: {fill: "red"}}
EntryBadColor == "circle" :> ("fill" :> <<"r", "e", "d">>)

\* {circle: {fill: "#1234567"}}: seven digits, a form parse_color documents not
EntryOddColor == "circle" :> ("fill" :> <<"#", "1", "2", "3", "4", "5", "6", "7">>)

Entries == {EntryCircle, EntryUnknown, EntryBox, EntryBadColor, EntryOddColor}

Backgrounds ==
    { <<"#", "1", "1", "2", "2", "3", "3">>,
      <<"0", "x", "F">>,
      <<"4", "2", "9", "4", "9", "6", "7", "2", "9", "6">> }

FlagValues ==
    { [str |-> "show_bounds"],
      [list |-> <<"show_tiles", "show_eval_count">>],
      [list |-> <<"show_grid", "verbose">>] }

\* A list item that is a dictionary, and one that is not (a scalar).
DictItem(d) == [ty |-> "dict", val |-> d]
OtherItem == [ty |-> "other"]

\* The body lists of exactly n entries.
BodiesOf(n) == [1..n -> Entries]

\* The list items of size n: an entry or a scalar (1), a container with a
\* body of n - 1 entries.
ItemsOf(n) ==
    (IF n = 1 THEN {DictItem(e) : e \in Entries} \cup {OtherItem} ELSE {})
      \cup {DictItem("body" :> b) : b \in BodiesOf(n - 1)}

RECURSIVE ItemSeqsOf(_)
\* The item lists of total size n.
ItemSeqsOf(n) ==
    IF n = 0 THEN {<<>>}
    ELSE UNION {{<<it>> \o rest : it \in ItemsOf(k), rest \in ItemSeqsOf(n - k)} : k \in 1..n}

\* The mapping documents of size n (n - 1 shared between the body with its
\* key, the background key and the flags key).
DictDocsOf(n) ==
    LET bodies(k) == IF k = 0 THEN {<<>>} ELSE {"body" :> b : b \in BodiesOf(k - 1)}
        bgs(k)    == IF k = 0 THEN {<<>>} ELSE {"background" :> c : c \in Backgrounds}
        fls(k)    == IF k = 0 THEN {<<>>} ELSE {"flags" :> f : f \in FlagValues}
        splits    == {kk \in (0..1) \X (0..1) : kk[1] + kk[2] <= n - 1}
    IN  UNION {{[ty |-> "dict", val |-> b @@ c @@ f] :
                   b \in bodies(n - 1 - kk[1] - kk[2]), c \in bgs(kk[1]), f \in fls(kk[2])} :
               kk \in splits}

\* The documents of size n >= 1: None, a scalar, a list, a mapping.
DocsOf(n) ==
    (IF n = 1 THEN {[ty |-> "none"], [ty |-> "scalar"]} ELSE {})
      \cup {[ty |-> "list", items |-> s] : s \in ItemSeqsOf(n - 1)}
      \cup DictDocsOf(n)

RECURSIVE StreamsOf(_)
\* The streams of documents of total size n.
StreamsOf(n) ==
    IF n = 0 THEN {<<>>}
    ELSE UNION {{<<d>> \o rest : d \in DocsOf(k), rest \in StreamsOf(n - k)} : k \in 1..n}

Streams == UNION {StreamsOf(n) : n \in 0..MaxSize}

Init ==
    /\ docs \in Streams
    /\ doc_i = 0
    /\ layer_n = 0
    /\ primitives = <<>>
    /\ bg_color = DEFAULT_BG
    /\ flags = 0
    /\ pack_pc = "loop"
    /\ pack_ret = <<>>
    /\ ColorIdle /\ AabbIdle /\ RecIdle /\ PrimIdle /\ RestIdle

Next == VisitDoc \/ PackHeader

Spec == Init /\ [][Next]_vars

-----------------------------------------------------------------------------
(* The parse_primitive calls explored *)

\* The fields each branch reads with a default, and that default: the second
\* argument of its get calls, and '#ffffff' where a missing stroke is white.
\* A stroke without an else branch has no default: absent, it is colour 0.
KindDefaults(name) ==
    CASE name = "circle" ->
             "position" :> <<0, 0>> @@ "radius" :> Q(10) @@ "fill" :> WHITE @@
             "stroke-width" :> 0
      [] name = "box" ->
             "position" :> <<0, 0>> @@ "size" :> <<Q(20), Q(20)>> @@ "fill" :> WHITE @@
             "stroke-width" :> 0 @@ "round" :> 0
      [] name = "segment" ->
             "from" :> <<0, 0>> @@ "to" :> <<Q(100), Q(100)>> @@
             "stroke-width" :> Q(1) @@ "stroke" :> WHITE
      [] name = "triangle" ->
             "p0" :> <<0, 0>> @@ "p1" :> <<Q(50), Q(100)>> @@ "p2" :> <<Q(100), 0>> @@
             "fill" :> WHITE @@ "stroke-width" :> 0
      [] name = "ellipse" ->
             "position" :> <<0, 0>> @@ "radii" :> <<Q(20), Q(10)>> @@ "fill" :> WHITE @@
             "stroke-width" :> 0
      [] name = "bezier" ->
             "p0" :> <<0, 0>> @@ "p1" :> <<Q(50), Q(50)>> @@ "p2" :> <<Q(100), 0>> @@
             "stroke-width" :> Q(1) @@ "stroke" :> WHITE
      [] name = "arc" ->
             "position" :> <<0, 0>> @@ "angle" :> Q(90) @@ "radius" :> Q(20) @@
             "thickness" :> Q(2) @@ "stroke-width" :> 0 @@ "fill" :> WHITE @@
             "stroke" :> WHITE
      [] name = "pentagon" ->
             "position" :> <<0, 0>> @@ "radius" :> Q(20) @@ "fill" :> WHITE @@
             "stroke-width" :> 0
      [] name = "hexagon" ->
             "position" :> <<0, 0>> @@ "radius" :> Q(20) @@ "fill" :> WHITE @@
             "stroke-width" :> 0
      [] name = "star" ->
             "position" :> <<0, 0>> @@ "radius" :> Q(20) @@ "points" :> Q(5) @@
             "inner" :> 10 @@ "fill" :> WHITE @@ "stroke-width" :> 0
      [] name = "pie" ->
             "position" :> <<0, 0>> @@ "angle" :> Q(45) @@ "radius" :> Q(20) @@
             "fill" :> WHITE @@ "stroke-width" :> 0
      [] name = "ring" ->
             "position" :> <<0, 0>> @@ "angle" :> 0 @@ "radius" :> Q(20) @@
             "thickness" :> Q(4) @@ "fill" :> WHITE @@ "stroke-width" :> 0
      [] name = "heart" ->
             "position" :> <<0, 0>> @@ "scale" :> Q(20) @@ "fill" :> RED @@
             "stroke-width" :> 0
      [] name = "cross" ->
             "position" :> <<0, 0>> @@ "size" :> <<Q(20), Q(5)>> @@ "round" :> 0 @@
             "fill" :> WHITE @@ "stroke-width" :> 0
      [] name = "rounded_x" ->
             "position" :> <<0, 0>> @@ "width" :> Q(20) @@ "round" :> Q(3) @@
             "fill" :> WHITE @@ "stroke-width" :> 0
      [] name = "capsule" ->
             "from" :> <<0, 0>> @@ "to" :> <<Q(100), 0>> @@ "radius" :> Q(10) @@
             "fill" :> WHITE @@ "stroke-width" :> 0
      [] name = "rhombus" ->
             "position" :> <<0, 0>> @@ "size" :> <<Q(20), Q(30)>> @@ "fill" :> WHITE @@
             "stroke-width" :> 0
      [] name = "moon" ->
             "position" :> <<0, 0>> @@ "distance" :> Q(10) @@ "radius_outer" :> Q(20) @@
             "radius_inner" :> Q(15) @@ "fill" :> WHITE @@ "stroke-width" :> 0
      [] name = "egg" ->
             "position" :> <<0, 0>> @@ "radius_bottom" :> Q(20) @@
             "radius_top" :> Q(10) @@ "fill" :> WHITE @@ "stroke-width" :> 0

\* A value of the field that is not its default: a point, a colour, a number.
OtherValue(k) ==
    IF k \in {"position", "from", "to", "p0", "p1", "p2", "size", "radii"}
    THEN <<Q(3), Q(-2)>>
    ELSE IF k \in {"fill", "stroke"} THEN <<"#", "0", "f", "0">>
    ELSE Q(6)

\* The keys a caller may add that the kind's branch never looks up: names
\* of other kinds' channels and a name of none.
UnreadKeys(name) ==
    {"fill", "round", "radius", "unknown_key"} \ (DOMAIN KindDefaults(name))

\* A value that is no colour and no number: 'red'.
NoColor == <<"r", "e", "d">>

\* The field dictionaries of a kind: each field with a default is absent,
\* set to its default or set to another value; a stroke without a default
\* is absent or set; the unread keys are all absent or all set to 'red'.
PrimDicts(name) ==
    LET defaults == KindDefaults(name)
        keys     == DOMAIN defaults \cup {"stroke"}
        read     == UNION {{[k \in present |->
                               IF k \in explicit THEN defaults[k] ELSE OtherValue(k)] :
                              explicit \in SUBSET (present \cap DOMAIN defaults)} :
                           present \in SUBSET keys}
    IN  read \cup {d @@ [k \in UnreadKeys(name) |-> NoColor] : d \in read}

InitPrimitive ==
    /\ prim_pc = "call"
    /\ \E i \in 1..Len(KindNames) :
         prim_args \in [name : {KindNames[i]}, fields : PrimDicts(KindNames[i]),
                        layer : 0..MaxLayer]
    /\ prim_ret = <<>>
    /\ ColorIdle /\ AabbIdle /\ RecIdle /\ PackIdle /\ RestIdle

\* One call parse_primitive({name: fields}, layer).
ParsePrimitive ==
    /\ prim_pc = "call"
    /\ prim_ret' = parse_primitive(prim_args.name :> prim_args.fields, prim_args.layer)
    /\ prim_pc' = "returned"
    /\ UNCHANGED <<prim_args, colorVars, aabbVars, recVars, packVars, restVars>>

NextPrimitive == ParsePrimitive

SpecPrimitive == InitPrimitive /\ [][NextPrimitive]_vars

-----------------------------------------------------------------------------
(* src/yetty/ydraw/gen-ydraw-types.py: load_primitives, and the readPrimitive
   and writePrimitive functions generate_writer emits *)

\* Fields in SDFPrimitive that have dedicated struct members.
SPECIAL_FIELDS == {"type", "layer", "fillColor", "strokeColor", "strokeWidth", "round"}

RECURSIVE OffsetMapUpTo(_, _)
\* offset_map after the first n fields: offset_map[name] = (i, type), a
\* later field of the same name replacing an earlier one.
OffsetMapUpTo(fields, n) ==
    IF n = 0 THEN <<>>
    ELSE (fields[n].name :> <<n - 1, fields[n].type>>) @@ OffsetMapUpTo(fields, n - 1)

\* A numbering that counts the special fields too.
ParamIdxCountingSpecial(fields, n) == n - 1

\* param_idx when the loop reaches field n: the geometry fields before it.
ParamIdxAt(fields, n) ==
    Cardinality({i \in 1..(n - 1) : fields[i].name \notin SPECIAL_FIELDS})

RECURSIVE ParamMapUpTo(_, _)
\* prim["_param_map"] after the first n fields.
ParamMapUpTo(fields, n) ==
    IF n = 0 THEN <<>>
    ELSE IF fields[n].name \notin SPECIAL_FIELDS
         THEN (fields[n].name :> ParamIdxAt(fields, n)) @@ ParamMapUpTo(fields, n - 1)
         ELSE ParamMapUpTo(fields, n - 1)

\* One iteration of `for prim in primitives`: the kind with its three
\* computed entries.
Enriched(prim) ==
    [id |-> prim.id, fields |-> prim.fields,
     offset_map |-> OffsetMapUpTo(prim.fields, Len(prim.fields)),
     word_count |-> Len(prim.fields),
     param_map |-> ParamMapUpTo(prim.fields, Len(prim.fields))]

load_primitives(prims) == [i \in DOMAIN prims |-> Enriched(prims[i])]

\* A word no statement has written.
Uninit == -1

\* The members of SDFPrimitive after std::memset(&prim, 0, sizeof(prim)).
ZeroPrimitive ==
    [type |-> 0, layer |-> 0, fillColor |-> 0, strokeColor |-> 0, strokeWidth |-> 0,
     round |-> 0, params |-> [i \in 0..(PARAM_SLOTS - 1) |-> 0]]

\* The case of the generated switch for the type, or 0 for `default`; a
\* kind without fields has no case.
CaseOf(kinds, type) ==
    LET hits == {i \in DOMAIN kinds : kinds[i].id = type /\ kinds[i].fields # <<>>}
    IN  IF hits = {} THEN 0 ELSE CHOOSE i \in hits : TRUE

\* The member a field is stored in: prim.<name> for a special field,
\* prim.params[pidx] for a geometry field; past the array the expression has
\* no defined value and oob stands for what the build reads there.
MemberOf(kind, prim, fname, oob) ==
    IF fname \in SPECIAL_FIELDS THEN prim[fname]
    ELSE IF kind.param_map[fname] < PARAM_SLOTS THEN prim.params[kind.param_map[fname]]
    ELSE oob

RECURSIVE WriteUpTo(_, _, _, _)
\* buf after the statements generated for the first n fields of the kind.
WriteUpTo(kind, prim, oob, n) ==
    IF n = 0 THEN [o \in 0..(kind.word_count - 1) |-> Uninit]
    ELSE [WriteUpTo(kind, prim, oob, n - 1) EXCEPT
            ![kind.offset_map[kind.fields[n].name][1]] =
                MemberOf(kind, prim, kind.fields[n].name, oob)]

\* writePrimitive(buf, prim): the word count returned and the words written.
writePrimitive(kinds, prim, oob) ==
    LET c == CaseOf(kinds, prim.type)
    IN  IF c = 0 THEN [n |-> 0, buf |-> <<>>]
        ELSE [n |-> kinds[c].word_count,
              buf |-> WriteUpTo(kinds[c], prim, oob, Len(kinds[c].fields))]

\* A reader that takes each geometry field from the word after its own.
StoredShifted(prim, kind, fname, word) ==
    IF fname \in SPECIAL_FIELDS THEN [prim EXCEPT ![fname] = word]
    ELSE IF kind.param_map[fname] + 1 < PARAM_SLOTS
         THEN [prim EXCEPT !.params[kind.param_map[fname] + 1] = word]
         ELSE prim

\* prim after `prim.<member> = buf[off]`; a store past params[] is left to
\* the caller, it changes no member here.
Stored(prim, kind, fname, word) ==
    IF fname \in SPECIAL_FIELDS THEN [prim EXCEPT ![fname] = word]
    ELSE IF kind.param_map[fname] < PARAM_SLOTS
         THEN [prim EXCEPT !.params[kind.param_map[fname]] = word]
         ELSE prim

RECURSIVE ReadUpTo(_, _, _)
\* prim after the statements generated for the first n fields of the kind.
ReadUpTo(kind, buf, n) ==
    IF n = 0 THEN ZeroPrimitive
    ELSE Stored(ReadUpTo(kind, buf, n - 1), kind, kind.fields[n].name,
                buf[kind.offset_map[kind.fields[n].name][1]])

\* readPrimitive(buf, prim): prim as the case of the type in word 0 fills it.
readPrimitive(kinds, buf) ==
    LET c == CaseOf(kinds, buf[0])
    IN  IF c = 0 THEN ZeroPrimitive ELSE ReadUpTo(kinds[c], buf, Len(kinds[c].fields))

\* The geometry fields of a kind that index past params[PARAM_SLOTS - 1].
PastParams(kind) == {f \in DOMAIN kind.param_map : kind.param_map[f] >= PARAM_SLOTS}

\* The declared field names of a kind are pairwise distinct. A repeated
\* name is a repeated constant in ydraw-types.gen.h and a repeated parameter
\* of write<Name>, which no C++ build accepts.
DistinctNames(fields) ==
    Cardinality({fields[a].name : a \in DOMAIN fields}) = Len(fields)

-----------------------------------------------------------------------------
(* The schemas explored *)

\* The longest tail of fields after `type` in a short kind.
MaxFields == 3

\* The most geometry fields of a long kind: one more than a record holds.
MaxGeometry == 13

U32_FIELDS == {"type", "layer", "fillColor", "strokeColor", "count"}

Field(name) == [name |-> name, type |-> IF name \in U32_FIELDS THEN "u32" ELSE "f32"]

\* Field names a tail draws from, with repetition: two special fields, a
\* float and an integer geometry field.
TailNames == {"layer", "round", "x", "count"}

\* Kinds of `type` and up to MaxFields further fields, in any order.
ShortKinds ==
    {<<Field("type")>> \o [i \in DOMAIN t |-> Field(t[i])] : t \in StringsUpTo(TailNames, MaxFields)}

\* p0, p1, ... as field names.
GeometryNames ==
    <<"p0", "p1", "p2", "p3", "p4", "p5", "p6", "p7", "p8", "p9", "p10", "p11", "p12",
      "p13", "p14", "p15">>

\* Kinds in the canonical order: type, layer, n geometry fields, the four
\* style fields; n up to MaxGeometry.
LongKind(n) ==
    <<Field("type"), Field("layer")>> \o [i \in 1..n |-> Field(GeometryNames[i])]
    \o <<Field("fillColor"), Field("strokeColor"), Field("strokeWidth"), Field("round")>>

LongKinds == {LongKind(n) : n \in (MaxGeometry - 2)..MaxGeometry}

\* A file of one kind, or of a kind beside a long kind, in either order;
\* ids count from 1.
Schemas ==
    LET kinds == ShortKinds \cup LongKinds
    IN  {<<[id |-> 1, fields |-> k]>> : k \in kinds}
        \cup {<<[id |-> 1, fields |-> k], [id |-> 2, fields |-> o]>> : k \in kinds, o \in LongKinds}
        \cup {<<[id |-> 1, fields |-> o], [id |-> 2, fields |-> k]>> : k \in kinds, o \in LongKinds}

\* An SDFPrimitive of the given type whose members all differ.
PrimitiveOf(type) ==
    [type |-> type, layer |-> 31, fillColor |-> 32, strokeColor |-> 33, strokeWidth |-> 34,
     round |-> 35, params |-> [i \in 0..(PARAM_SLOTS - 1) |-> 40 + i]]

InitSchema ==
    /\ schema_pc = "call"
    /\ schema_in \in Schemas
    /\ schema_out = <<>>
    /\ io_prim = <<>> /\ io_buf = <<>> /\ io_back = <<>>
    /\ SchemaOthersIdle

\* primitives = load_primitives(YAML_PATH)
LoadPrimitives ==
    /\ schema_pc = "call"
    /\ schema_out' = load_primitives(schema_in)
    /\ schema_pc' = "loaded"
    /\ UNCHANGED <<schema_in, io_prim, io_buf, io_back, schemaOthers>>

\* writePrimitive(buf, prim) of the header generated from the loaded kinds,
\* for a prim of a declared type or of type 3, which no kind has. A read
\* past params[] yields the member that follows the array or any other word.
CallWritePrimitive ==
    /\ schema_pc = "loaded"
    /\ {k \in DOMAIN schema_out : ~DistinctNames(schema_out[k].fields)} = {}
    /\ \E type \in 1..3 :
         /\ io_prim' = PrimitiveOf(type)
         /\ \E oob \in {PrimitiveOf(type).fillColor, Uninit} :
              io_buf' = writePrimitive(schema_out, PrimitiveOf(type), oob)
    /\ schema_pc' = "written"
    /\ UNCHANGED <<schema_in, schema_out, io_back, schemaOthers>>

\* readPrimitive(buf, prim) on the words written. A store past params[]
\* lands in the member that follows the array, or outside the structure, or
\* stops the program.
CallReadPrimitive ==
    /\ schema_pc = "written"
    /\ io_buf.n > 0
    /\ LET c    == CaseOf(schema_out, io_buf.buf[0])
           prim == readPrimitive(schema_out, io_buf.buf)
       IN  IF c # 0 /\ PastParams(schema_out[c]) # {}
           THEN io_back' \in {[ok |-> TRUE, prim |-> prim],
                              [ok |-> TRUE, prim |-> [prim EXCEPT !.fillColor = Uninit]],
                              [ok |-> FALSE, prim |-> ZeroPrimitive]}
           ELSE io_back' = [ok |-> TRUE, prim |-> prim]
    /\ schema_pc' = "read"
    /\ UNCHANGED <<schema_in, schema_out, io_prim, io_buf, schemaOthers>>

NextSchema == LoadPrimitives \/ CallWritePrimitive \/ CallReadPrimitive

SpecSchema == InitSchema /\ [][NextSchema]_vars

-----------------------------------------------------------------------------
(* The two encoders together: parse_primitive and the generated pair *)

\* params = [...] of each branch of parse_primitive: the field each slot is
\* taken from and the part of it: x or y of a pair, v for a number, sin or
\* cos for an angle.
ParamLayout(name) ==
    CASE name = "circle" ->
             <<<<"position", "x">>, <<"position", "y">>, <<"radius", "v">>>>
      [] name = "box" ->
             <<<<"position", "x">>, <<"position", "y">>, <<"size", "x">>,
               <<"size", "y">>>>
      [] name = "segment" ->
             <<<<"from", "x">>, <<"from", "y">>, <<"to", "x">>, <<"to", "y">>>>
      [] name = "triangle" ->
             <<<<"p0", "x">>, <<"p0", "y">>, <<"p1", "x">>, <<"p1", "y">>,
               <<"p2", "x">>, <<"p2", "y">>>>
      [] name = "ellipse" ->
             <<<<"position", "x">>, <<"position", "y">>, <<"radii", "x">>,
               <<"radii", "y">>>>
      [] name = "bezier" ->
             <<<<"p0", "x">>, <<"p0", "y">>, <<"p1", "x">>, <<"p1", "y">>,
               <<"p2", "x">>, <<"p2", "y">>>>
      [] name = "arc" ->
             <<<<"position", "x">>, <<"position", "y">>, <<"angle", "sin">>,
               <<"angle", "cos">>, <<"radius", "v">>, <<"thickness", "v">>>>
      [] name = "pentagon" ->
             <<<<"position", "x">>, <<"position", "y">>, <<"radius", "v">>>>
      [] name = "hexagon" ->
             <<<<"position", "x">>, <<"position", "y">>, <<"radius", "v">>>>
      [] name = "star" ->
             <<<<"position", "x">>, <<"position", "y">>, <<"radius", "v">>,
               <<"points", "v">>, <<"inner", "v">>>>
      [] name = "pie" ->
             <<<<"position", "x">>, <<"position", "y">>, <<"angle", "sin">>,
               <<"angle", "cos">>, <<"radius", "v">>>>
      [] name = "ring" ->
             <<<<"position", "x">>, <<"position", "y">>, <<"angle", "sin">>,
               <<"angle", "cos">>, <<"radius", "v">>, <<"thickness", "v">>>>
      [] name = "heart" ->
             <<<<"position", "x">>, <<"position", "y">>, <<"scale", "v">>>>
      [] name = "cross" ->
             <<<<"position", "x">>, <<"position", "y">>, <<"size", "x">>,
               <<"size", "y">>, <<"round", "v">>>>
      [] name = "rounded_x" ->
             <<<<"position", "x">>, <<"position", "y">>, <<"width", "v">>,
               <<"round", "v">>>>
      [] name = "capsule" ->
             <<<<"from", "x">>, <<"from", "y">>, <<"to", "x">>, <<"to", "y">>,
               <<"radius", "v">>>>
      [] name = "rhombus" ->
             <<<<"position", "x">>, <<"position", "y">>, <<"size", "x">>,
               <<"size", "y">>>>
      [] name = "moon" ->
             <<<<"position", "x">>, <<"position", "y">>, <<"distance", "v">>,
               <<"radius_outer", "v">>, <<"radius_inner", "v">>>>
      [] name = "egg" ->
             <<<<"position", "x">>, <<"position", "y">>, <<"radius_bottom", "v">>,
               <<"radius_top", "v">>>>

SpecRoundTrip == (InitPrimitive \/ InitSchema) /\ [][NextPrimitive \/ NextSchema]_vars

-----------------------------------------------------------------------------
(* parse_yaml_to_binary called by several threads at once *)

\* The invocations in flight.
Calls == {1, 2}

\* The locals of an invocation on entry to its loop.
Entered(stream) ==
    [docs |-> stream, doc_i |-> 0, layer |-> 0, primitives |-> <<>>,
     bg_color |-> DEFAULT_BG, flags |-> 0, pc |-> "loop", ret |-> <<>>]

\* An invocation that reads the layer counter of invocation 1.
LayerOfFirst(cs, c) == cs[1].layer

\* `layer`, a local of the invocation.
LayerOf(cs, c) == cs[c].layer

\* The document the invocation's loop is at.
DocAt(L) == L.docs[L.doc_i + 1]

\* The locals after one iteration of `for doc in docs`, or the exception
\* leaving the function.
AfterIteration(L, st, bg, fl) ==
    IF st.ok /\ bg.ok /\ fl.ok
    THEN [L EXCEPT !.layer = st.layer, !.primitives = st.primitives, !.bg_color = bg.v,
                   !.flags = fl.v, !.doc_i = L.doc_i + 1]
    ELSE [L EXCEPT !.pc = "raised"]

\* One iteration of the loop with `layer` as given.
Visited(L, layer) ==
    AfterIteration(L, DocPrimitives(DocAt(L), Walk(TRUE, layer, L.primitives)),
                   DocBackground(DocAt(L), L.bg_color), DocFlags(DocAt(L), L.flags))

\* header = struct.pack('<IIII', 1, len(primitives), bg_color, flags)
\* return header + b''.join(primitives), bg_color, flags
Packed(L) ==
    IF FitsU32(L.bg_color)
    THEN [L EXCEPT !.pc = "done",
                   !.ret = <<U32Word(FromNat(1)), U32Word(FromNat(Len(L.primitives))),
                             U32Word(L.bg_color), U32Word(FromNat(L.flags))>>
                           \o Join(L.primitives)]
    ELSE [L EXCEPT !.pc = "raised"]

\* The pairs of streams of total size at most MaxSize.
StreamPairs ==
    UNION {StreamsOf(ab[1]) \X StreamsOf(ab[2]) :
             ab \in {x \in (0..MaxSize) \X (0..MaxSize) : x[1] + x[2] <= MaxSize}}

InitConcurrent ==
    /\ \E pair \in StreamPairs :
         calls = [c \in Calls |-> Entered(pair[c])]
    /\ ConcOthersIdle

\* Invocation c runs one iteration of its loop.
VisitDocOf(c) ==
    /\ calls[c].pc = "loop"
    /\ calls[c].doc_i < Len(calls[c].docs)
    /\ calls' = [calls EXCEPT ![c] = Visited(calls[c], LayerOf(calls, c))]
    /\ UNCHANGED concOthers

\* Invocation c packs its header and returns.
PackHeaderOf(c) ==
    /\ calls[c].pc = "loop"
    /\ calls[c].doc_i = Len(calls[c].docs)
    /\ calls' = [calls EXCEPT ![c] = Packed(calls[c])]
    /\ UNCHANGED concOthers

NextConcurrent == \E c \in Calls : VisitDocOf(c) \/ PackHeaderOf(c)

SpecConcurrent == InitConcurrent /\ [][NextConcurrent]_vars

-----------------------------------------------------------------------------
(* plugins/ydraw.py: the plugin's own copy of the packer *)

\* plugins/ydraw.py carries its own parse_color and parse_primitive (with
\* pack_sdf_primitive and compute_aabb under it); their statements are those
\* of core/sdf.py, comments and the place of `import math` apart.
ydraw_parse_color(color_str) == parse_color(color_str)
ydraw_parse_primitive(prim_dict, layer) == parse_primitive(prim_dict, layer)

\* data = parse_primitive(prim, layer)
\* if data: primitives.append(data); layer += 1
YdrawEmit(prim, st) == Appended(ydraw_parse_primitive(prim, st.layer), st)

RECURSIVE YdrawEmitBody(_, _)
\* for prim in body: ...
YdrawEmitBody(body, st) ==
    IF body = <<>> \/ ~st.ok THEN st
    ELSE YdrawEmitBody(Tail(body), YdrawEmit(body[1], st))

\* One item of a list document.
YdrawEmitItem(item, st) ==
    IF item.ty = "dict"
    THEN IF "body" \in DOMAIN item.val
         THEN YdrawEmitBody(item.val["body"], st)
         ELSE YdrawEmit(item.val, st)
    ELSE st

RECURSIVE YdrawEmitItems(_, _)
\* for item in doc: ...
YdrawEmitItems(items, st) ==
    IF items = <<>> \/ ~st.ok THEN st
    ELSE YdrawEmitItems(Tail(items), YdrawEmitItem(items[1], st))

\* The primitives of one document.
YdrawDocPrimitives(doc, st0) ==
    IF Falsy(doc) THEN st0
    ELSE IF doc.ty = "list" THEN YdrawEmitItems(doc.items, st0)
    ELSE IF doc.ty = "dict" /\ "body" \in DOMAIN doc.val
    THEN YdrawEmitBody(doc.val["body"], st0)
    ELSE st0

\* if 'background' in doc: bg_color = parse_color(doc['background'])
YdrawDocBackground(doc, bg) ==
    IF ~Falsy(doc) /\ doc.ty = "dict" /\ "background" \in DOMAIN doc.val
    THEN ydraw_parse_color(doc.val["background"])
    ELSE Return(bg)

\* The locals of the plugin's packer on entry to its loop: it has no `flags`.
YdrawEntered(stream) ==
    [docs |-> stream, doc_i |-> 0, layer |-> 0, primitives |-> <<>>,
     bg_color |-> DEFAULT_BG, pc |-> "loop", ret |-> <<>>]

\* One iteration of `for doc in docs`: the 'flags' key is never looked at.
YdrawVisited(L) ==
    LET st == YdrawDocPrimitives(DocAt(L), Walk(TRUE, L.layer, L.primitives))
        bg == YdrawDocBackground(DocAt(L), L.bg_color)
    IN  IF st.ok /\ bg.ok
        THEN [L EXCEPT !.layer = st.layer, !.primitives = st.primitives,
                       !.bg_color = bg.v, !.doc_i = L.doc_i + 1]
        ELSE [L EXCEPT !.pc = "raised"]

\* A header that carries the flags of the document, as core/sdf.py packs it.
YdrawHeaderWithFlags(L) ==
    <<U32Word(FromNat(1)), U32Word(FromNat(Len(L.primitives))), U32Word(L.bg_color),
      U32Word(FromNat(OrFlags(<<"show_bounds">>, 0)))>>

\* header = struct.pack('<IIII', 1, len(primitives), bg_color, 0)
YdrawHeader(L) ==
    <<U32Word(FromNat(1)), U32Word(FromNat(Len(L.primitives))), U32Word(L.bg_color),
      U32Word(FromNat(0))>>

\* return header + b''.join(primitives), bg_color
YdrawPacked(L) ==
    IF FitsU32(L.bg_color)
    THEN [L EXCEPT !.pc = "done", !.ret = YdrawHeader(L) \o Join(L.primitives)]
    ELSE [L EXCEPT !.pc = "raised"]

\* flags: null and flags: 3, values a YAML document may give the key.
OddFlagValues == {[none |-> TRUE], [num |-> 3]}

\* Mapping documents whose flags value is no string and no list.
OddFlagDocs ==
    {[ty |-> "dict", val |-> b @@ c @@ ("flags" :> f)] :
        b \in {<<>>, "body" :> <<EntryCircle>>, "body" :> <<EntryBadColor>>},
        c \in {<<>>} \cup {"background" :> g : g \in Backgrounds},
        f \in OddFlagValues}

\* The texts handed to both packers: the streams of size up to MaxSize, and
\* those with one document of OddFlagDocs among them.
CopyStreams ==
    UNION {StreamsOf(n) : n \in 0..MaxSize}
      \cup UNION {{pre \o <<d>> \o post :
                      pre \in StreamsOf(ab[1]), d \in OddFlagDocs, post \in StreamsOf(ab[2])} :
                  ab \in {x \in (0..MaxSize) \X (0..MaxSize) : x[1] + x[2] <= MaxSize - 2}}

InitCopies ==
    /\ \E stream \in CopyStreams :
         /\ copy_sdf = Entered(stream)
         /\ copy_ydraw = YdrawEntered(stream)
    /\ CopyOthersIdle

Finished(L) == L.pc \in {"done", "raised"}

\* core/sdf.py, one iteration of its loop.
SdfVisitDoc ==
    /\ copy_sdf.pc = "loop"
    /\ copy_sdf.doc_i < Len(copy_sdf.docs)
    /\ copy_sdf' = Visited(copy_sdf, copy_sdf.layer)
    /\ UNCHANGED <<copy_ydraw, copyOthers>>

\* core/sdf.py packs its header and returns.
SdfPackHeader ==
    /\ copy_sdf.pc = "loop"
    /\ copy_sdf.doc_i = Len(copy_sdf.docs)
    /\ copy_sdf' = Packed(copy_sdf)
    /\ UNCHANGED <<copy_ydraw, copyOthers>>

\* plugins/ydraw.py, called on the same text once core/sdf.py has finished:
\* one iteration of its loop.
YdrawVisitDoc ==
    /\ Finished(copy_sdf)
    /\ copy_ydraw.pc = "loop"
    /\ copy_ydraw.doc_i < Len(copy_ydraw.docs)
    /\ copy_ydraw' = YdrawVisited(copy_ydraw)
    /\ UNCHANGED <<copy_sdf, copyOthers>>

\* plugins/ydraw.py packs its header and returns.
YdrawPackHeader ==
    /\ Finished(copy_sdf)
    /\ copy_ydraw.pc = "loop"
    /\ copy_ydraw.doc_i = Len(copy_ydraw.docs)
    /\ copy_ydraw' = YdrawPacked(copy_ydraw)
    /\ UNCHANGED <<copy_sdf, copyOthers>>

NextCopies == SdfVisitDoc \/ SdfPackHeader \/ YdrawVisitDoc \/ YdrawPackHeader

SpecCopies == InitCopies /\ [][NextCopies]_vars

-----------------------------------------------------------------------------
(* encode.py: the base94 text encoding, and the escape sequences around it *)

\* A str is here the list of its code points: chr and ord are the passage
\* between a one-character string and its code point.
ESC == 27
BEL == 7
BACKSLASH == 92
RBRACKET == 93
NEWLINE == 10

RECURSIVE base94_encode_low_first(_)
\* An encoder that appends the remainder before the quotient.
base94_encode_low_first(data) ==
    IF data = <<>> THEN <<>>
    ELSE <<33 + (data[1] % 94), 33 + (data[1] \div 94)>>
           \o base94_encode_low_first(Tail(data))

RECURSIVE base94_encode(_)
\* for byte in data:
\*     result.append(chr(33 + (byte // 94))); result.append(chr(33 + (byte % 94)))
base94_encode(data) ==
    IF data = <<>> THEN <<>>
    ELSE <<33 + (data[1] \div 94), 33 + (data[1] % 94)>> \o base94_encode(Tail(data))

RECURSIVE DecodeLoop(_, _, _)
\* while i + 1 < len(encoded): ... result.append(c1 * 94 + c2); i += 2
DecodeLoop(encoded, i, result) ==
    IF i + 1 < Len(encoded)
    THEN DecodeLoop(encoded, i + 2,
                    Append(result, (encoded[i + 1] - 33) * 94 + (encoded[i + 2] - 33)))
    ELSE result

\* return bytes(result): ValueError unless every element is in range(256)
base94_decode(encoded) ==
    LET result == DecodeLoop(encoded, 0, <<>>)
    IN  IF \A k \in DOMAIN result : result[k] \in 0..255
        THEN [ok |-> TRUE, v |-> result]
        ELSE [ok |-> FALSE, v |-> <<>>]

\* f"{VENDOR_ID};{args};{plugin_args};" of create_sequence_bytes("ydraw"):
\* "999999;create -p ydraw -x 0 -y 0 -w 0 -h 0 -r;;"
OscArguments ==
    <<57, 57, 57, 57, 57, 57, 59, 99, 114, 101, 97, 116, 101, 32, 45, 112, 32, 121,
      100, 114, 97, 119, 32, 45, 120, 32, 48, 32, 45, 121, 32, 48, 32, 45, 119, 32,
      48, 32, 45, 104, 32, 48, 32, 45, 114, 59, 59>>

\* core/osc.py: f"\033]{VENDOR_ID};{args};{plugin_args};{encoded_payload}\033\\"
\* (encoded_payload is base94.encode(payload_bytes) when payload_bytes is not
\* empty, "" otherwise; the text handed over here is that of base94_encode)
create_sequence_bytes(encoded_payload) ==
    <<ESC, RBRACKET>> \o OscArguments \o encoded_payload \o <<ESC, BACKSLASH>>

\* f"99999;{plugin};{mode};{x};{y};{w};{h};" of encode.py with its defaults:
\* "99999;shader;R;0;0;40;20;"
MainArguments ==
    <<57, 57, 57, 57, 57, 59, 115, 104, 97, 100, 101, 114, 59, 82, 59, 48, 59, 48,
      59, 52, 48, 59, 50, 48, 59>>

\* encode.py main: osc = f"\033]99999;...;{encoded}\033\\"
MainSequence(encoded) ==
    <<ESC, RBRACKET>> \o MainArguments \o encoded \o <<ESC, BACKSLASH>>

\* encode.py main, --save: content = f"\x1b]99999;...;{encoded}\x07\n"
SavedSequence(encoded) ==
    <<ESC, RBRACKET>> \o MainArguments \o encoded \o <<BEL, NEWLINE>>

MaxBytes == 3

\* The least byte, the byte of the greatest remainder of byte % 94, the greatest byte.
EdgeBytes == {0, 93, 255}

\* The byte strings encoded: up to MaxBytes bytes, one of them any byte value
\* and the others among EdgeBytes.
ByteStrings ==
    {<<>>} \cup
    UNION {{before \o <<byte>> \o after :
               before \in [1..ab[1] -> EdgeBytes], byte \in 0..255,
               after \in [1..ab[2] -> EdgeBytes]} :
           ab \in {x \in (0..MaxBytes) \X (0..MaxBytes) : x[1] + x[2] < MaxBytes}}

InitBase94 ==
    /\ b94_pc = "call"
    /\ b94_data \in ByteStrings
    /\ b94_text = <<>>
    /\ b94_back = <<>>
    /\ b94_seq = <<>>
    /\ B94OthersIdle

\* encoded = base94_encode(data)
Base94Encode ==
    /\ b94_pc = "call"
    /\ b94_text' = base94_encode(b94_data)
    /\ b94_pc' = "encoded"
    /\ UNCHANGED <<b94_data, b94_back, b94_seq, b94Others>>

\* decoded = base94_decode(encoded)
Base94Decode ==
    /\ b94_pc = "encoded"
    /\ b94_back' = base94_decode(b94_text)
    /\ b94_pc' = "decoded"
    /\ UNCHANGED <<b94_data, b94_text, b94_seq, b94Others>>

\* The text is wrapped for the terminal, by core/osc.py or by encode.py.
WrapSequence ==
    /\ b94_pc = "decoded"
    /\ b94_seq' \in {create_sequence_bytes(b94_text), MainSequence(b94_text),
                     SavedSequence(b94_text)}
    /\ b94_pc' = "wrapped"
    /\ UNCHANGED <<b94_data, b94_text, b94_back, b94Others>>

NextBase94 == Base94Encode \/ Base94Decode \/ WrapSequence

SpecBase94 == InitBase94 /\ [][NextBase94]_vars

-----------------------------------------------------------------------------
(* plugins/python: init.py over yetty.py, the layer lifecycle the host drives *)

\* How many layers the host creates.
MaxLayers == 3

\* The layer ids the host may pass: those init_layer can have handed out, and
\* 0 and MaxLayers + 1, which it never has.
LayerIds == 0..(MaxLayers + 1)

\* The classes a script decorates: with a destroy method, or without.
LayerClasses == {[has_destroy |-> TRUE], [has_destroy |-> FALSE]}

\* What the host observes of a call: the id passed or assigned, the value
\* returned ("raised" for an exception), and the instances on which a method of
\* the user's class (init, render, destroy) was invoked.
Call(op, id, result, invoked) ==
    [op |-> op, id |-> id, result |-> result, invoked |-> invoked]

\* The ids init_layer has assigned to its calls so far.
Assigned == 1..current_layer_id

\* del _layer_instances[layer_id]
Without(instances, ids) == [k \in (DOMAIN instances) \ ids |-> instances[k]]

\* if _current_layer_id == layer_id: _current_layer_id = None
CurrentWithout(current, ids) == current \ ids

InitShim ==
    /\ plugin_initialized = FALSE
    /\ current_layer_id = 0
    /\ layer_classes = <<>>
    /\ layer_instances = <<>>
    /\ yetty_current = {}
    /\ returned_ids = <<>>
    /\ disposed_ids = {}
    /\ plug_last = Call("import", 0, "None", {})
    /\ PlugOthersIdle

\* init_plugin()
InitPlugin ==
    /\ plugin_initialized' = TRUE
    /\ plug_last' = Call("init_plugin", 0, "None", {})
    /\ UNCHANGED <<current_layer_id, layer_classes, layer_instances, yetty_current,
                   returned_ids, disposed_ids, plugOthers>>

\* @yetty.layer on a class of the user's script: _layer_classes[name] = cls
\* (one class name is explored, so the class registered replaces the one before)
RegisterLayer ==
    /\ \E cls \in LayerClasses : layer_classes' = <<cls>>
    /\ plug_last' = Call("layer", 0, "None", {})
    /\ UNCHANGED <<plugin_initialized, current_layer_id, layer_instances, yetty_current,
                   returned_ids, disposed_ids, plugOthers>>

\* How init_layer(ctx, width, height) can end: _create_layer_instance raises
\* ValueError when no class is registered; cls() may raise; the user's
\* init(ctx) may raise; otherwise the id is returned.
InitLayerOutcomes ==
    IF layer_classes = <<>> THEN {"no_class"}
    ELSE {"constructor_raised", "init_raised", "returned"}

\* init_layer(ctx, width, height)
InitLayer ==
    /\ current_layer_id < MaxLayers
    /\ LET layer_id == current_layer_id + 1
           cls == layer_classes[Len(layer_classes)]
       IN  \E outcome \in InitLayerOutcomes :
             /\ current_layer_id' = layer_id
             /\ IF outcome \in {"no_class", "constructor_raised"}
                THEN /\ UNCHANGED <<layer_instances, yetty_current, returned_ids>>
                     /\ plug_last' = Call("init_layer", layer_id, "raised", {})
                ELSE /\ layer_instances' =
                          (layer_id :> [has_destroy |-> cls.has_destroy,
                                        ctx |-> outcome = "returned"])
                            @@ layer_instances
                     /\ yetty_current' = {layer_id}
                     /\ IF outcome = "returned"
                        THEN /\ returned_ids' = Append(returned_ids, layer_id)
                             /\ plug_last' = Call("init_layer", layer_id, "returned", {layer_id})
                        ELSE /\ UNCHANGED returned_ids
                             /\ plug_last' = Call("init_layer", layer_id, "raised", {layer_id})
    /\ UNCHANGED <<plugin_initialized, layer_classes, disposed_ids, plugOthers>>

\* render_layer(layer_id, frame, width, height, render_pass_handle)
RenderLayer ==
    /\ \E layer_id \in LayerIds :
         IF layer_id \notin DOMAIN layer_instances
         THEN /\ plug_last' = Call("render_layer", layer_id, "False", {})
              /\ UNCHANGED yetty_current
         ELSE /\ yetty_current' = {layer_id}
              /\ \E result \in {"True", "raised"} :
                   plug_last' = Call("render_layer", layer_id, result, {layer_id})
    /\ UNCHANGED <<plugin_initialized, current_layer_id, layer_classes, layer_instances,
                   returned_ids, disposed_ids, plugOthers>>

\* How instance.destroy() can end where _destroy_layer calls it.
DestroyOutcomes(instances, layer_id) ==
    IF layer_id \in DOMAIN instances /\ instances[layer_id].has_destroy
    THEN {"destroyed", "raised"}
    ELSE {"no_call"}

\* dispose_layer(layer_id)
DisposeLayer ==
    /\ \E layer_id \in LayerIds :
         \E outcome \in DestroyOutcomes(layer_instances, layer_id) :
           IF outcome = "raised"
           THEN /\ plug_last' = Call("dispose_layer", layer_id, "raised", {layer_id})
                /\ UNCHANGED <<layer_instances, yetty_current, disposed_ids>>
           ELSE /\ layer_instances' = Without(layer_instances, {layer_id})
                /\ yetty_current' = IF layer_id \in DOMAIN layer_instances
                                    THEN CurrentWithout(yetty_current, {layer_id})
                                    ELSE yetty_current
                /\ disposed_ids' = disposed_ids \cup ({layer_id} \cap Assigned)
                /\ plug_last' = Call("dispose_layer", layer_id, "None",
                                     IF outcome = "destroyed" THEN {layer_id} ELSE {})
    /\ UNCHANGED <<plugin_initialized, current_layer_id, layer_classes, returned_ids,
                   plugOthers>>

\* The first n keys of _layer_instances (ids are inserted in rising order).
FirstKeys(instances, n) ==
    {k \in DOMAIN instances : Cardinality({j \in DOMAIN instances : j < k}) < n}

\* The instances among ids that have a destroy method.
WithDestroy(instances, ids) == {k \in ids : instances[k].has_destroy}

\* dispose_plugin(): for layer_id in list(yetty._layer_instances.keys()):
\* dispose_layer(layer_id); the loop ends at the first destroy that raises.
DisposePlugin ==
    /\ \E n \in 0..Cardinality(DOMAIN layer_instances) :
         LET gone == FirstKeys(layer_instances, n)
             next == FirstKeys(layer_instances, n + 1) \ gone
         IN  IF n = Cardinality(DOMAIN layer_instances)
             THEN /\ plugin_initialized' = FALSE
                  /\ layer_instances' = <<>>
                  /\ yetty_current' = CurrentWithout(yetty_current, gone)
                  /\ disposed_ids' = disposed_ids \cup gone
                  /\ plug_last' = Call("dispose_plugin", 0, "None",
                                       WithDestroy(layer_instances, gone))
             ELSE /\ WithDestroy(layer_instances, next) # {}
                  /\ layer_instances' = Without(layer_instances, gone)
                  /\ yetty_current' = CurrentWithout(yetty_current, gone)
                  /\ disposed_ids' = disposed_ids \cup gone
                  /\ plug_last' = Call("dispose_plugin", 0, "raised",
                                       WithDestroy(layer_instances, gone \cup next))
                  /\ UNCHANGED plugin_initialized
    /\ UNCHANGED <<current_layer_id, layer_classes, returned_ids, plugOthers>>

NextPlugin ==
    InitPlugin \/ RegisterLayer \/ InitLayer \/ RenderLayer \/ DisposeLayer \/ DisposePlugin

SpecPlugin == InitShim /\ [][NextPlugin]_vars

-----------------------------------------------------------------------------
(* Properties of parse_color (SpecColor) *)

Returned == color_pc \in {"returned", "reparsed"}

\* The characters after the prefix of n characters.
Digits(n) == Slice(literal, n, Len(literal))
AllHex(s) == \A i \in 1..Len(s) : s[i] \in DOMAIN DigitTable
HashForm(lens) ==
    StartsWith(literal, <<"#">>) /\ Len(Digits(1)) \in lens /\ AllHex(Digits(1))
ZeroXForm ==
    /\ StartsWith(literal, <<"0", "x">>) \/ StartsWith(literal, <<"0", "X">>)
    /\ Len(Digits(2)) = 8 /\ AllHex(Digits(2))
\* A bare decimal integer: an optional sign and at least one decimal digit.
DecimalForm ==
    LET s == IF Len(literal) > 0 /\ literal[1] \in {"-", "+"} THEN Tail(literal) ELSE literal
    IN  Len(s) > 0 /\ \A i \in 1..Len(s) : s[i] \in {DigitChars[j] : j \in 1..10}

\* The byte two hexadecimal digits spell.
HexByte(s, i) == 16 * DigitTable[s[i]] + DigitTable[s[i + 1]]
\* The packed word with the given bytes, named from the most significant.
Word(a, b, g, r) == [neg |-> FALSE, mag |-> Norm(<<r, g, b, a>>)]

\* C5: parse_color packs ABGR for both hex forms: '#RRGGBB[AA]' is read in
\* R,G,B,A order and '0xAARRGGBB' in A,R,G,B order, and the word returned is
\* (A<<24)|(B<<16)|(G<<8)|R; both forms are accepted.
C5_AbgrPacking ==
    /\ (HashForm({6}) /\ color_pc # "call") =>
         /\ Returned
         /\ color_ret = LET d == Digits(1)
                        IN  Word(255, HexByte(d, 5), HexByte(d, 3), HexByte(d, 1))
    /\ (HashForm({8}) /\ color_pc # "call") =>
         /\ Returned
         /\ color_ret = LET d == Digits(1)
                        IN  Word(HexByte(d, 7), HexByte(d, 5), HexByte(d, 3), HexByte(d, 1))
    /\ (ZeroXForm /\ color_pc # "call") =>
         /\ Returned
         /\ color_ret = LET d == Digits(2)
                        IN  Word(HexByte(d, 1), HexByte(d, 7), HexByte(d, 5), HexByte(d, 3))

\* parse_color('#112233') has returned 0xFF332211.
C5_Witness ==
    /\ color_pc = "returned"
    /\ literal = <<"#", "1", "1", "2", "2", "3", "3">>
    /\ color_ret.mag = <<17, 34, 51, 255>>

\* C6: '#rgb' gives what '#rrggbb' gives, '#rgba' what '#rrggbbaa' gives,
\* and '#RRGGBB' what '#RRGGBBFF' gives.
C6_Shorthand ==
    /\ (HashForm({3, 4}) /\ color_pc # "call") =>
         /\ Returned
         /\ LET d == Digits(1)
                long == <<"#">> \o [i \in 1..(2 * Len(d)) |-> d[(i + 1) \div 2]]
            IN  Return(color_ret) = parse_color(long)
    /\ (HashForm({6}) /\ color_pc # "call") =>
         /\ Returned
         /\ Return(color_ret) = parse_color(literal \o <<"F", "F">>)

\* parse_color('#f00') has returned what '#ff0000' gives, 0xFF0000FF.
C6_Witness ==
    /\ color_pc = "returned"
    /\ literal = <<"#", "f", "0", "0">>
    /\ color_ret.mag = <<255, 0, 0, 255>>

\* str's own form of an integer: no '+', no leading zero, no '-0'.
Canonical ==
    LET s == IF literal[1] = "-" THEN Tail(literal) ELSE literal
    IN  literal[1] # "+" /\ (s[1] # "0" \/ literal = <<"0">>)

\* C7: a bare decimal integer passes through parse_color unchanged (it is
\* accepted, and the value returned is the number the literal writes), and
\* parse_color(str(v)) = v for every value v that parse_color returned.
C7_DecimalPassThrough ==
    /\ (DecimalForm /\ color_pc # "call") => Returned
    /\ (DecimalForm /\ Returned /\ Canonical) => PyStr(color_ret) = literal
    /\ color_pc = "reparsed" => color_again = Return(color_ret)

\* The packed value 0xFF332211 went through str and parse_color again.
C7_Witness ==
    /\ color_pc = "reparsed"
    /\ color_ret.mag = <<17, 34, 51, 255>>
    /\ color_again.ok

\* C8: parse_color fails for every literal that is none of: '#' and exactly
\* 3, 4, 6 or 8 hex digits; '0x' or '0X' and exactly 8 hex digits; a bare
\* decimal integer.
C8_RejectsMalformed ==
    Returned => (HashForm({3, 4, 6, 8}) \/ ZeroXForm \/ DecimalForm)

\* C9: the value parse_color returns is a u32, in 0 .. 2^32 - 1.
C9_ReturnsU32 ==
    Returned => (~color_ret.neg /\ Len(color_ret.mag) <= 4)

-----------------------------------------------------------------------------
(* Properties of compute_aabb (SpecAabb) *)

MinOf(S) == CHOOSE x \in S : \A y \in S : x <= y
MaxOf(S) == CHOOSE x \in S : \A y \in S : x >= y

\* The reference rules: centre +- extent per axis, and the hull of the named
\* points grown by e.
Around(cx, cy, ex, ey) == <<Num(cx - ex), Num(cy - ey), Num(cx + ex), Num(cy + ey)>>
Hull(xs, ys, e) == <<Num(MinOf(xs) - e), Num(MinOf(ys) - e), Num(MaxOf(xs) + e), Num(MaxOf(ys) + e)>>

\* C10: with expand = strokeWidth/2, circle, pentagon, hexagon and star give
\* centre +- (radius + expand); box gives centre +- (halfExtent + cornerRound
\* + expand) per axis; ellipse gives centre +- (axis radius + expand);
\* segment, triangle and bezier give the hull of their points +- expand.
C10_AabbRules ==
    aabb_pc = "returned" =>
      LET t == aabb_args.prim_type
          p == [i \in 1..Len(aabb_args.params) |-> aabb_args.params[i].q]
          e == aabb_args.stroke_width \div 2
          c == aabb_args.corner_round
      IN  /\ 2 * e = aabb_args.stroke_width
          /\ t \in {SDF_TYPE_CIRCLE, SDF_TYPE_PENTAGON, SDF_TYPE_HEXAGON, SDF_TYPE_STAR} =>
               aabb_ret = Around(p[1], p[2], p[3] + e, p[3] + e)
          /\ t = SDF_TYPE_BOX =>
               aabb_ret = Around(p[1], p[2], p[3] + c + e, p[4] + c + e)
          /\ t = SDF_TYPE_ELLIPSE =>
               aabb_ret = Around(p[1], p[2], p[3] + e, p[4] + e)
          /\ t = SDF_TYPE_SEGMENT =>
               aabb_ret = Hull({p[1], p[3]}, {p[2], p[4]}, e)
          /\ t \in {SDF_TYPE_TRIANGLE, SDF_TYPE_BEZIER2} =>
               aabb_ret = Hull({p[1], p[3], p[5]}, {p[2], p[4], p[6]}, e)

\* A rounded, stroked box has been measured.
C10_Witness ==
    /\ aabb_pc = "returned"
    /\ aabb_args.prim_type = SDF_TYPE_BOX
    /\ aabb_args.corner_round > 0
    /\ aabb_args.stroke_width > 0
    /\ aabb_ret[1].q < aabb_args.params[1].q - aabb_args.params[3].q

\* The arguments of the call, the parameters as counts of quarters.
AabbTag == aabb_args.prim_type
AabbP == [i \in 1..Len(aabb_args.params) |-> aabb_args.params[i].q]
AabbE == aabb_args.stroke_width \div 2

\* C11: for arc, pie and ring the box is centre +- (outer radius + thickness
\* + strokeWidth/2) on both axes, the thickness being the kind's thickness
\* parameter for arc and ring and zero for pie.
C11_ArcPieRing ==
    aabb_pc = "returned" =>
      /\ AabbTag \in {SDF_TYPE_ARC, SDF_TYPE_RING} =>
           aabb_ret = Around(AabbP[1], AabbP[2],
                             AabbP[5] + AabbP[6] + AabbE, AabbP[5] + AabbP[6] + AabbE)
      /\ AabbTag = SDF_TYPE_PIE =>
           aabb_ret = Around(AabbP[1], AabbP[2], AabbP[5] + AabbE, AabbP[5] + AabbE)

\* C12: with r = max of the two radii + strokeWidth/2, moon is
\* (cx - r, cy - r, cx + r + distance, cy + r) and egg is
\* (cx - r, cy - r, cx + r, cy + r + radius_bottom): only the +X side of a
\* moon and the +Y side of an egg are extended.
C12_MoonEggAsymmetric ==
    aabb_pc = "returned" =>
      /\ AabbTag = SDF_TYPE_MOON =>
           LET r == Max2(AabbP[4], AabbP[5]) + AabbE
           IN  aabb_ret = <<Num(AabbP[1] - r), Num(AabbP[2] - r),
                            Num(AabbP[1] + r + AabbP[3]), Num(AabbP[2] + r)>>
      /\ AabbTag = SDF_TYPE_EGG =>
           LET r == Max2(AabbP[3], AabbP[4]) + AabbE
           IN  aabb_ret = <<Num(AabbP[1] - r), Num(AabbP[2] - r),
                            Num(AabbP[1] + r), Num(AabbP[2] + r + AabbP[3])>>

\* A stroked moon of positive distance has been measured: its +X side lies
\* further from the centre than its -X side.
C12_Witness ==
    /\ aabb_pc = "returned"
    /\ AabbTag = SDF_TYPE_MOON
    /\ AabbP[3] > 0
    /\ aabb_args.stroke_width > 0
    /\ aabb_ret[3].q - AabbP[1] > AabbP[1] - aabb_ret[1].q

\* The tags compute_aabb has a rule for: the recognized kinds.
RuleTags == (SDF_TYPE_CIRCLE..SDF_TYPE_EGG) \ {SDF_TYPE_BEZIER3}

\* The box grown by e on its four sides.
Widened(box, e) ==
    <<Num(box[1].q - e), Num(box[2].q - e), Num(box[3].q + e), Num(box[4].q + e)>>

\* C13: for every recognized kind the box for stroke width w is the box for
\* stroke width 0 with both minima lowered and both maxima raised by w/2.
C13_StrokeSymmetric ==
    (aabb_pc = "returned" /\ AabbTag \in RuleTags) =>
      /\ 2 * AabbE = aabb_args.stroke_width
      /\ aabb_ret = Widened(compute_aabb(AabbTag, aabb_args.params, 0,
                                         aabb_args.corner_round), AabbE)

\* A stroked heart has been measured, and the stroke moved its box.
C13_Witness ==
    /\ aabb_pc = "returned"
    /\ AabbTag = SDF_TYPE_HEART
    /\ aabb_args.stroke_width > 0
    /\ aabb_ret # compute_aabb(AabbTag, aabb_args.params, 0, aabb_args.corner_round)

\* C14: a tag that is no recognized kind gets the unbounded box
\* (-1e10, -1e10, 1e10, 1e10) whatever the other arguments are, an empty
\* parameter list included.
C14_UnknownUnbounded ==
    (aabb_pc = "returned" /\ AabbTag \notin RuleTags) =>
      aabb_ret = <<NegE10, NegE10, PosE10, PosE10>>

\* A tag above the declared ones has been measured with no parameters, a
\* stroke and a corner rounding.
C14_Witness ==
    /\ aabb_pc = "returned"
    /\ AabbTag > SDF_TYPE_EGG
    /\ aabb_args.params = <<>>
    /\ aabb_args.stroke_width > 0
    /\ aabb_args.corner_round > 0
    /\ Len(aabb_ret) = 4

\* C15: none of the 21 declared tags SDF_TYPE_CIRCLE .. SDF_TYPE_EGG falls
\* through to the unbounded box.
C15_Exhaustive ==
    (aabb_pc = "returned" /\ AabbTag \in SDF_TYPE_CIRCLE..SDF_TYPE_EGG) =>
      aabb_ret # <<NegE10, NegE10, PosE10, PosE10>>

\* The span the box must cover: x0..x1 by y0..y1.
Covers(box, x0, y0, x1, y1) ==
    /\ box[1].e10 = 0 /\ box[2].e10 = 0 /\ box[3].e10 = 0 /\ box[4].e10 = 0
    /\ box[1].q <= box[3].q /\ box[2].q <= box[4].q
    /\ box[1].q <= x0 /\ box[2].q <= y0
    /\ box[3].q >= x1 /\ box[4].q >= y1

\* centre +- ex by centre +- ey.
CoversAround(box, cx, cy, ex, ey) == Covers(box, cx - ex, cy - ey, cx + ex, cy + ey)

\* The parameters that are lengths (radii, half-extents, thickness,
\* distance), by their 1-based positions in the parameter list.
LengthSlots(t) ==
    IF t \in {SDF_TYPE_CIRCLE, SDF_TYPE_PENTAGON, SDF_TYPE_HEXAGON, SDF_TYPE_STAR,
              SDF_TYPE_HEART} THEN {3}
    ELSE IF t \in {SDF_TYPE_BOX, SDF_TYPE_ELLIPSE, SDF_TYPE_RHOMBUS, SDF_TYPE_ROUNDED_X,
                   SDF_TYPE_EGG} THEN {3, 4}
    ELSE IF t = SDF_TYPE_ROUNDED_BOX THEN 3..Len(aabb_args.params)
    ELSE IF t = SDF_TYPE_CROSS THEN {3, 4, 5}
    ELSE IF t \in {SDF_TYPE_ARC, SDF_TYPE_RING} THEN {5, 6}
    ELSE IF t \in {SDF_TYPE_PIE, SDF_TYPE_CAPSULE} THEN {5}
    ELSE IF t = SDF_TYPE_MOON THEN {3, 4, 5}
    ELSE {}

ValidLengths == \A i \in LengthSlots(AabbTag) : AabbP[i] >= 0

\* The extent the parameters fix, kind by kind.
ExtentCovered(t, p, box) ==
    IF t \in {SDF_TYPE_CIRCLE, SDF_TYPE_PENTAGON, SDF_TYPE_HEXAGON, SDF_TYPE_STAR,
              SDF_TYPE_HEART}
    THEN CoversAround(box, p[1], p[2], p[3], p[3])
    ELSE IF t \in {SDF_TYPE_BOX, SDF_TYPE_ELLIPSE, SDF_TYPE_RHOMBUS, SDF_TYPE_ROUNDED_BOX,
                   SDF_TYPE_CROSS}
    THEN CoversAround(box, p[1], p[2], p[3], p[4])
    ELSE IF t = SDF_TYPE_EGG
    THEN CoversAround(box, p[1], p[2], Max2(p[3], p[4]), Max2(p[3], p[4]))
    ELSE IF t = SDF_TYPE_ROUNDED_X
    THEN CoversAround(box, p[1], p[2], p[3], p[3])
    ELSE IF t = SDF_TYPE_SEGMENT
    THEN Covers(box, MinOf({p[1], p[3]}), MinOf({p[2], p[4]}),
                     MaxOf({p[1], p[3]}), MaxOf({p[2], p[4]}))
    ELSE IF t \in {SDF_TYPE_TRIANGLE, SDF_TYPE_BEZIER2}
    THEN Covers(box, MinOf({p[1], p[3], p[5]}), MinOf({p[2], p[4], p[6]}),
                     MaxOf({p[1], p[3], p[5]}), MaxOf({p[2], p[4], p[6]}))
    ELSE IF t \in {SDF_TYPE_ARC, SDF_TYPE_RING}
    THEN CoversAround(box, p[1], p[2], p[5] + p[6], p[5] + p[6])
    ELSE IF t = SDF_TYPE_PIE
    THEN CoversAround(box, p[1], p[2], p[5], p[5])
    ELSE IF t = SDF_TYPE_CAPSULE
    THEN Covers(box, MinOf({p[1], p[3]}) - p[5], MinOf({p[2], p[4]}) - p[5],
                     MaxOf({p[1], p[3]}) + p[5], MaxOf({p[2], p[4]}) + p[5])
    ELSE IF t = SDF_TYPE_MOON
    THEN CoversAround(box, p[1], p[2], Max2(p[4], p[5]), Max2(p[4], p[5]))
    ELSE TRUE

\* C16: for every recognized kind and non-negative lengths, stroke width
\* and corner rounding, the box contains every named point and centre +-
\* each radius or half-extent (plus the thickness of an arc or a ring), and
\* its minima do not exceed its maxima.
C16_Containment ==
    (aabb_pc = "returned" /\ AabbTag \in RuleTags /\ ValidLengths) =>
      ExtentCovered(AabbTag, AabbP, aabb_ret)

\* The containment of every recognized kind but the arc.
ContainmentButArc ==
    (aabb_pc = "returned" /\ AabbTag \in RuleTags \ {SDF_TYPE_ARC} /\ ValidLengths) =>
      ExtentCovered(AabbTag, AabbP, aabb_ret)

-----------------------------------------------------------------------------
(* Properties of pack_sdf_primitive (SpecRecord) *)

\* The little-endian word of a small unsigned number.
SmallU32(n) == [fmt |-> "I", val |-> <<n, 0, 0, 0>>]
ColorWord(v) == [fmt |-> "I", val |-> v.mag]

\* C4: a record is 96 bytes, 24 words: type, layer, the parameters in order
\* then zeros up to 12 slots, fillColor, strokeColor, strokeWidth, round, the
\* four aabb floats and two zero words, for every parameter count 0..12.
C4_RecordLayout ==
    /\ (rec_pc \in {"returned", "raised"} /\ Len(rec_args.params) <= 12) =>
         rec_pc = "returned"
    /\ rec_pc = "returned" =>
         LET n == Len(rec_args.params)
         IN  /\ 4 * Len(rec_ret) = 96
             /\ rec_ret[1] = SmallU32(rec_args.prim_type)
             /\ rec_ret[2] = SmallU32(rec_args.layer)
             /\ \A i \in 1..12 :
                  rec_ret[2 + i] = [fmt |-> "f",
                                    val |-> IF i <= n THEN rec_args.params[i] ELSE Num(0)]
             /\ rec_ret[15] = ColorWord(rec_args.fill_color)
             /\ rec_ret[16] = ColorWord(rec_args.stroke_color)
             /\ rec_ret[17] = [fmt |-> "f", val |-> Num(rec_args.stroke_width)]
             /\ rec_ret[18] = [fmt |-> "f", val |-> Num(rec_args.corner_round)]
             /\ \A i \in 1..4 : rec_ret[18 + i] = [fmt |-> "f", val |-> rec_args.aabb[i]]
             /\ rec_ret[23] = SmallU32(0)
             /\ rec_ret[24] = SmallU32(0)

\* A record with no parameter at all, and so twelve zero slots, was packed.
C4_Witness ==
    /\ rec_pc = "returned"
    /\ rec_args.params = <<>>
    /\ Len(rec_ret) = 24

-----------------------------------------------------------------------------
(* Properties of parse_yaml_to_binary (Spec) *)

RECURSIVE Flat(_)
\* The concatenation of a sequence of sequences.
Flat(ss) == IF ss = <<>> THEN <<>> ELSE ss[1] \o Flat(Tail(ss))

\* The entries of a document in document order: a container's body stands
\* where the container stands.
EntriesOfItem(item) ==
    IF item.ty # "dict" THEN <<>>
    ELSE IF "body" \in DOMAIN item.val THEN item.val["body"]
    ELSE <<item.val>>
EntriesOfDoc(doc) ==
    IF doc.ty = "list" THEN Flat([i \in 1..Len(doc.items) |-> EntriesOfItem(doc.items[i])])
    ELSE IF doc.ty = "dict" /\ "body" \in DOMAIN doc.val THEN doc.val["body"]
    ELSE <<>>
EntriesOfStream == Flat([i \in 1..Len(docs) |-> EntriesOfDoc(docs[i])])

IsRecognized(e) == \E i \in 1..Len(KindNames) : KindNames[i] \in DOMAIN e
RecognizedEntries == SelectSeq(EntriesOfStream, IsRecognized)

\* No colour of the stream makes parse_color or struct.pack raise: no entry
\* is the one filled 'red' and every background is '#112233'.
ColoursValid ==
    /\ \A i \in 1..Len(EntriesOfStream) : EntriesOfStream[i] # EntryBadColor
    /\ \A i \in 1..Len(docs) :
         (docs[i].ty = "dict" /\ "background" \in DOMAIN docs[i].val) =>
             docs[i].val["background"] = <<"#", "1", "1", "2", "2", "3", "3">>

\* The u32 at a byte offset of the buffer (a small one: its top byte is 0).
U32At(buf, offset) ==
    LET b == buf[offset \div 4 + 1].val
    IN  b[1] + 256 * b[2] + 65536 * b[3]
\* The k-th 96-byte record of the buffer, k = 1, 2, ...
RecordAt(buf, k) == SubSeq(buf, 4 + 24 * (k - 1) + 1, 4 + 24 * k)
RecordCount(buf) == (Len(buf) - 4) \div 24

\* C1: a stream of N recognized and M unrecognized entries packs without
\* error to primCount = N and exactly N records of layers 0 .. N-1, wherever
\* the unrecognized entries stand.
C1_LayersDense ==
    ColoursValid =>
      /\ pack_pc # "raised"
      /\ pack_pc = "done" =>
           LET n == Len(RecognizedEntries)
           IN  /\ U32At(pack_ret, 4) = n
               /\ 4 * Len(pack_ret) = 16 + 96 * n
               /\ \A k \in 1..n : RecordAt(pack_ret, k)[2] = SmallU32(k - 1)

\* [circle, unknown_kind, box] packed to (type 0, layer 0), (type 1, layer 1).
C1_Witness ==
    /\ pack_pc = "done"
    /\ docs = <<[ty |-> "list",
                 items |-> <<DictItem(EntryCircle), DictItem(EntryUnknown), DictItem(EntryBox)>>]>>
    /\ U32At(pack_ret, 4) = 2
    /\ RecordAt(pack_ret, 1)[1] = SmallU32(0) /\ RecordAt(pack_ret, 1)[2] = SmallU32(0)
    /\ RecordAt(pack_ret, 2)[1] = SmallU32(1) /\ RecordAt(pack_ret, 2)[2] = SmallU32(1)

\* C2: a buffer returned is 16 + 96 * primCount bytes long, primCount being
\* the u32 at offset 4, and its u32 at offset 0 is the version 1.
C2_BufferSize ==
    pack_pc = "done" =>
      /\ Len(pack_ret) >= 4
      /\ 4 * Len(pack_ret) = 16 + 96 * U32At(pack_ret, 4)
      /\ U32At(pack_ret, 0) = 1

\* A stream of two documents was packed, the first with nothing but an
\* unrecognized entry, the second with a record.
C2_Witness ==
    /\ pack_pc = "done"
    /\ Len(docs) = 2
    /\ EntriesOfDoc(docs[1]) = <<EntryUnknown>>
    /\ U32At(pack_ret, 4) = 1

\* C3: the k-th record of the buffer encodes the k-th recognized entry of the
\* stream in document order, bodies in place and documents in stream order,
\* at layer k - 1: nothing is reordered and the layer is never reset.
C3_DocumentOrder ==
    pack_pc = "done" =>
      /\ RecordCount(pack_ret) = Len(RecognizedEntries)
      /\ \A k \in 1..Len(RecognizedEntries) :
           Bytes(RecordAt(pack_ret, k)) = parse_primitive(RecognizedEntries[k], k - 1)

\* A list whose container comes before a direct primitive was packed: the
\* body's circle is record 1 and the box after it record 2.
C3_Witness ==
    /\ pack_pc = "done"
    /\ docs = <<[ty |-> "list",
                 items |-> <<DictItem("body" :> <<EntryCircle>>), DictItem(EntryBox)>>]>>
    /\ RecordAt(pack_ret, 1)[1] = SmallU32(SDF_TYPE_CIRCLE)
    /\ RecordAt(pack_ret, 2)[1] = SmallU32(SDF_TYPE_BOX)
    /\ RecordAt(pack_ret, 2)[2] = SmallU32(1)

\* The mapping documents of the stream that carry the key.
DocsWithKey(key) ==
    {i \in 1..Len(docs) : docs[i].ty = "dict" /\ key \in DOMAIN docs[i].val}

\* The flag names listed in the stream, a single name standing for a list of one.
NamesUnder(v) == IF "str" \in DOMAIN v THEN {v.str} ELSE {v.list[j] : j \in 1..Len(v.list)}
FlagNames == UNION {NamesUnder(docs[i].val["flags"]) : i \in DocsWithKey("flags")}

\* The background word the stream asks for: the last document's that has one.
BackgroundWord ==
    IF DocsWithKey("background") = {}
    THEN [fmt |-> "I", val |-> <<26, 26, 46, 255>>]
    ELSE U32Word(parse_color(docs[MaxOf(DocsWithKey("background"))].val["background"]).v)

\* The flags word of the names that stand for bit 0, bit 1 and bit 2.
FlagsWord(bit0, bit1, bit2) ==
    SmallU32((IF FlagNames \cap bit0 # {} THEN 1 ELSE 0)
             + (IF FlagNames \cap bit1 # {} THEN 2 ELSE 0)
             + (IF FlagNames \cap bit2 # {} THEN 4 ELSE 0))

C18_ScalarAborts ==
    (\E i \in 1..Len(docs) : docs[i].ty = "scalar") => pack_pc # "done"

\* A literal of one of the documented forms: '#' and 3, 4, 6 or 8
\* hexadecimal digits, 0x / 0X and 8 of them, or a bare decimal integer.
WellFormedColor(s) ==
    LET hex(t) == \A i \in 1..Len(t) : t[i] \in DOMAIN DigitTable
        dec(t) == Len(t) > 0 /\ \A i \in 1..Len(t) : t[i] \in {DigitChars[j] : j \in 1..10}
    IN  \/ Len(s) \in {4, 5, 7, 9} /\ s[1] = "#" /\ hex(Tail(s))
        \/ Len(s) = 10 /\ s[1] = "0" /\ s[2] \in {"x", "X"} /\ hex(Tail(Tail(s)))
        \/ dec(IF Len(s) > 0 /\ s[1] \in {"-", "+"} THEN Tail(s) ELSE s)

\* The colour literals a recognized entry's kind reads: its fill unless the
\* kind is a stroke-only one, and its stroke.
ColoursOfEntry(e) ==
    LET name == KindNames[FirstKind(e)]
    IN  {e[name][k] : k \in (DOMAIN e[name]) \cap
                             (IF name \in {"segment", "bezier"} THEN {"stroke"}
                              ELSE {"fill", "stroke"})}

\* The colour literals the stream has the packer parse.
UsedColours ==
    UNION {ColoursOfEntry(RecognizedEntries[i]) : i \in 1..Len(RecognizedEntries)}
      \cup {docs[i].val["background"] : i \in DocsWithKey("background")}

\* C19: a stream with a malformed colour literal in a fill or stroke a
\* recognized primitive uses, or in a background, is not packed: the error
\* reaches the caller and no buffer is returned.
C19_MalformedPropagates ==
    (\E c \in UsedColours : ~WellFormedColor(c)) => pack_pc # "done"

\* What the code does keep: a literal parse_color itself refuses is never
\* replaced, the stream is not packed.
RefusedPropagates ==
    (\E c \in UsedColours : ~parse_color(c).ok) => pack_pc # "done"


-----------------------------------------------------------------------------
(* Properties of parse_primitive (SpecPrimitive) *)

\* The entry with one more field, set to the kind's default.
WithDefault(f) == prim_args.fields @@ (f :> KindDefaults(prim_args.name)[f])

\* C20: for every kind and every field it reads with a default, the record
\* of an entry without the field is byte-identical to the record of the
\* same entry with the field set to the kind's default; the default is a
\* function of the kind alone.
C20_DefaultsExplicit ==
    prim_pc = "returned" =>
      /\ prim_ret.ok
      /\ 4 * Len(prim_ret.data) = 96
      /\ \A f \in DOMAIN KindDefaults(prim_args.name) \ DOMAIN prim_args.fields :
           prim_ret = parse_primitive(prim_args.name :> WithDefault(f), prim_args.layer)

\* `segment: {}` was encoded at layer 1: to = (100, 100), a white stroke of
\* width 1.
C20_Witness ==
    /\ prim_pc = "returned"
    /\ prim_args.name = "segment"
    /\ prim_args.fields = <<>>
    /\ prim_args.layer = 1
    /\ prim_ret.data[5] = F32Word(Num(400)) /\ prim_ret.data[6] = F32Word(Num(400))
    /\ prim_ret.data[16] = [fmt |-> "I", val |-> <<255, 255, 255, 255>>]
    /\ prim_ret.data[17] = F32Word(Num(4))

\* The entry's fields without those its kind does not read.
ReadFields ==
    [k \in DOMAIN prim_args.fields \ UnreadKeys(prim_args.name) |-> prim_args.fields[k]]

\* C21: a field supplied for a channel the kind does not have is ignored:
\* the call does not fail and the record is byte-identical to the record of
\* the entry without that field; its value ('red') is never parsed.
C21_UnreadIgnored ==
    prim_pc = "returned" =>
      /\ prim_ret.ok
      /\ prim_ret = parse_primitive(prim_args.name :> ReadFields, prim_args.layer)

\* A segment given a fill, a round, a radius and an unknown key, all 'red',
\* was encoded to a record whose fill word is 0.
C21_Witness ==
    /\ prim_pc = "returned"
    /\ prim_args.name = "segment"
    /\ {"fill", "round", "radius", "unknown_key"} \subseteq DOMAIN prim_args.fields
    /\ prim_args.fields["fill"] = NoColor
    /\ prim_ret.ok
    /\ prim_ret.data[15] = SmallU32(0)

\* The kinds that accept a `round` from the caller, and the number of
\* geometry words each declares besides it.
RoundKinds == {"box", "cross", "rounded_x"}
GeometryWords(name) == IF name = "rounded_x" THEN 3 ELSE 4

\* The round value supplied is in word 17 and words 2..13 hold the geometry
\* fields only.
RoundInWord17 ==
    /\ prim_ret.data[18] = F32Word(Num(prim_args.fields["round"]))
    /\ \A i \in (GeometryWords(prim_args.name) + 1)..PARAM_SLOTS :
         prim_ret.data[2 + i] = F32Word(Num(0))

\* C22: the always-present channels are written through their dedicated
\* words only: for box, cross and rounded_x the `round` the caller supplies
\* lands in word 17, and the params words hold the geometry fields only.
C22_RoundDedicated ==
    (/\ prim_pc = "returned" /\ prim_ret.ok
     /\ prim_args.name \in RoundKinds
     /\ "round" \in DOMAIN prim_args.fields) => RoundInWord17

\* The same for box alone, the one kind that passes `round` as corner_round.
RoundDedicatedBox ==
    (/\ prim_pc = "returned" /\ prim_ret.ok
     /\ prim_args.name = "box"
     /\ "round" \in DOMAIN prim_args.fields) => RoundInWord17

-----------------------------------------------------------------------------
(* Properties of load_primitives (SpecSchema) *)

\* C23: no kind exceeds the record's capacity: every params[] index
\* load_primitives assigns is below 12.
C23_WithinCapacity ==
    schema_pc # "call" =>
      \A k \in DOMAIN schema_out :
        \A f \in DOMAIN schema_out[k].param_map :
          schema_out[k].param_map[f] < PARAM_SLOTS

\* The names of the kind's fields that are not special, in declared order.
GeometryPositions(kind) ==
    {n \in DOMAIN kind.fields : kind.fields[n].name \notin SPECIAL_FIELDS}

\* What C26 says of one loaded kind, given the kind as the file declares it.
OffsetsAsDeclared(kind, declared) ==
    /\ DOMAIN kind.offset_map = {declared.fields[n].name : n \in DOMAIN declared.fields}
    /\ \A n \in DOMAIN declared.fields :
         kind.offset_map[declared.fields[n].name] = <<n - 1, declared.fields[n].type>>
    /\ kind.word_count = Len(declared.fields)
    /\ {kind.offset_map[f][1] : f \in DOMAIN kind.offset_map} = 0..(kind.word_count - 1)
    /\ \A f, g \in DOMAIN kind.offset_map :
         kind.offset_map[f][1] = kind.offset_map[g][1] => f = g
    /\ DOMAIN kind.param_map =
         {declared.fields[n].name : n \in GeometryPositions(declared)}
    /\ {kind.param_map[f] : f \in DOMAIN kind.param_map} =
         0..(Cardinality(GeometryPositions(declared)) - 1)
    /\ \A m, n \in GeometryPositions(declared) :
         m < n => kind.param_map[declared.fields[m].name]
                    < kind.param_map[declared.fields[n].name]
    /\ kind.offset_map = load_primitives(<<declared>>)[1].offset_map
    /\ kind.param_map = load_primitives(<<declared>>)[1].param_map

\* C26 as stated: every loaded kind has its fields at their declared
\* positions, word indices 0 .. word_count - 1 pairwise distinct, its
\* geometry fields numbered 0, 1, 2, ... in declared order, and the same
\* offsets whatever other kinds the file declares.
C26_OffsetsEveryKind ==
    schema_pc # "call" =>
      \A k \in DOMAIN schema_out : OffsetsAsDeclared(schema_out[k], schema_in[k])

\* C26 (amended): the same for every loaded kind whose declared field names
\* are pairwise distinct.
C26_OffsetsDistinctNames ==
    schema_pc # "call" =>
      \A k \in DOMAIN schema_out :
        DistinctNames(schema_in[k].fields) => OffsetsAsDeclared(schema_out[k], schema_in[k])

\* A file of two kinds was loaded whose first kind is (type, x, round,
\* count): count, the fourth word, is params[1].
C26_Witness ==
    /\ schema_pc = "loaded"
    /\ Len(schema_out) = 2
    /\ schema_in[1].fields = <<Field("type"), Field("x"), Field("round"), Field("count")>>
    /\ schema_out[1].offset_map["count"] = <<3, "u32">>
    /\ schema_out[1].param_map = ("x" :> 0) @@ ("count" :> 1)

-----------------------------------------------------------------------------
(* Properties of the two encoders (SpecRoundTrip) *)

\* The value of a field of the entry: the caller's, or the default.
Supplied(f) == Get(prim_args.fields, f, KindDefaults(prim_args.name)[f])

\* The part of a field's value a slot is taken from, as a number.
Part(v, part) == IF part = "x" THEN v[1] ELSE IF part = "y" THEN v[2] ELSE v

\* The float a slot holds when it holds the value supplied.
Verbatim(f, part) == Num(Part(Supplied(f), part))

\* The float a slot holds for the value supplied: half of it for the size
\* of a box, its sine or cosine for an angle, the value itself otherwise.
AsEncoded(f, part) ==
    IF part = "sin" THEN SinDeg(Supplied(f))
    ELSE IF part = "cos" THEN CosDeg(Supplied(f))
    ELSE IF prim_args.name = "box" /\ f = "size" THEN Num(Half(Part(Supplied(f), part)))
    ELSE Verbatim(f, part)

\* The style words hold the fill, stroke, stroke-width and round supplied,
\* the colours as parse_color packs them.
StyleDecoded ==
    LET defaults == DOMAIN KindDefaults(prim_args.name)
        d        == prim_ret.data
    IN  /\ "fill" \in defaults => d[15] = U32Word(parse_color(Supplied("fill")).v)
        /\ "stroke" \in defaults \cup DOMAIN prim_args.fields =>
             d[16] = U32Word(parse_color(Supplied("stroke")).v)
        /\ d[17] = F32Word(Num(Supplied("stroke-width")))
        /\ prim_args.name = "box" => d[18] = F32Word(Num(Supplied("round")))

\* Every geometry slot decodes to the value supplied.
GeometryVerbatim ==
    LET layout == ParamLayout(prim_args.name)
    IN  \A i \in DOMAIN layout :
          prim_ret.data[2 + i] = F32Word(Verbatim(layout[i][1], layout[i][2]))

\* Every geometry slot decodes to the value the branch computes from the
\* value supplied.
GeometryEncoded ==
    LET layout == ParamLayout(prim_args.name)
    IN  \A i \in DOMAIN layout :
          prim_ret.data[2 + i] = F32Word(AsEncoded(layout[i][1], layout[i][2]))

\* The kind of the prim written.
WrittenKind == schema_out[CaseOf(schema_out, io_prim.type)]

\* readPrimitive returned every declared field as it was in the prim written.
ReadBack ==
    /\ io_back.ok
    /\ \A n \in DOMAIN WrittenKind.fields :
         MemberOf(WrittenKind, io_back.prim, WrittenKind.fields[n].name, Uninit)
           = MemberOf(WrittenKind, io_prim, WrittenKind.fields[n].name, Uninit)

GeneratedPairRead ==
    /\ schema_pc = "read"
    /\ Cardinality(DOMAIN WrittenKind.param_map) = 2
    /\ io_back.prim.params[1] = io_prim.params[1]

-----------------------------------------------------------------------------
(* Properties of concurrent packing (SpecConcurrent) *)

RECURSIVE RunAlone(_)
\* The locals at the return of an invocation nothing is interleaved with.
RunAlone(L) ==
    IF L.pc # "loop" THEN L
    ELSE IF L.doc_i < Len(L.docs) THEN RunAlone(Visited(L, L.layer))
    ELSE Packed(L)

\* C25: interleaved at any step, every invocation returns the buffer, the
\* background and the flags it returns when run alone, or raises as it does
\* alone; the layer counter and the primitive list of one never reach
\* another.
C25_Isolated ==
    \A c \in Calls :
      calls[c].pc \in {"done", "raised"} => calls[c] = RunAlone(Entered(calls[c].docs))

\* Invocation 2 has returned a buffer of one record while invocation 1,
\* with one record collected, has not yet packed its header.
C25_Witness ==
    /\ calls[2].pc = "done" /\ Len(calls[2].ret) = 4 + 24
    /\ calls[1].pc = "loop" /\ calls[1].doc_i = 1
    /\ calls[1].layer = 1 /\ Len(calls[1].primitives) = 1

-----------------------------------------------------------------------------
(* Properties of the two copies of the packer (SpecCopies) *)

\* A document in which the loop of core/sdf.py finds a 'flags' key.
HasFlags(doc) == ~Falsy(doc) /\ doc.ty = "dict" /\ "flags" \in DOMAIN doc.val
NoFlagsKey == \A i \in DOMAIN copy_sdf.docs : ~HasFlags(copy_sdf.docs[i])
FlagsIterable ==
    \A i \in DOMAIN copy_sdf.docs :
        HasFlags(copy_sdf.docs[i]) => Iterable(copy_sdf.docs[i].val["flags"])
BothFinished == Finished(copy_sdf) /\ Finished(copy_ydraw)
BothReturned == copy_sdf.pc = "done" /\ copy_ydraw.pc = "done"

\* Word 4 of the buffer is the header's flags word (byte offset 12).
SameButFlagsWord(a, b) ==
    Len(a) = Len(b) /\ \A i \in DOMAIN a : i # 4 => a[i] = b[i]

\* Both copies end the same way, and what they return agrees: the same
\* background colour, the same buffer but for the flags word, which the plugin
\* writes as 0; the same buffer altogether when no document has a flags key.
CopiesAgree ==
    /\ copy_sdf.pc = copy_ydraw.pc
    /\ BothReturned =>
         /\ copy_sdf.bg_color = copy_ydraw.bg_color
         /\ SameButFlagsWord(copy_sdf.ret, copy_ydraw.ret)
         /\ copy_ydraw.ret[4] = U32Word(FromNat(0))
         /\ NoFlagsKey => copy_sdf.ret = copy_ydraw.ret

-----------------------------------------------------------------------------
(* Properties of the base94 encoding (SpecBase94) *)

Encoded == b94_pc \in {"encoded", "decoded", "wrapped"}
Decoded == b94_pc \in {"decoded", "wrapped"}

\* Where a terminal reading the sequence after its introducer ESC ] finds the
\* sequence ended: at a BEL, or at an ESC (with the backslash of ST after it).
Terminators(seq) == {k \in 3..Len(seq) : seq[k] = BEL \/ seq[k] = ESC}

\* C28: base94_decode(base94_encode(d)) = d for every byte string d; the text
\* has 2 * len(d) characters, each in chr(33) .. chr(126), hence neither ESC nor
\* BEL; so in the escape sequence built around the text the only terminator is
\* the one the wrapper wrote after it.
C28_Base94RoundTrip ==
    /\ Encoded =>
         /\ Len(b94_text) = 2 * Len(b94_data)
         /\ \A k \in DOMAIN b94_text : b94_text[k] \in 33..126
         /\ \A k \in DOMAIN b94_text : b94_text[k] # ESC /\ b94_text[k] # BEL
    /\ Decoded => b94_back.ok /\ b94_back.v = b94_data
    /\ b94_pc = "wrapped" =>
         /\ Terminators(b94_seq) = {Len(b94_seq) - 1}
         /\ \E n \in 1..Len(b94_seq) :
                SubSeq(b94_seq, n + 1, n + Len(b94_text)) = b94_text
                  /\ n + Len(b94_text) = Len(b94_seq) - 2

\* Several bytes went through encoder and decoder and were wrapped with ST;
\* the text holds a backslash, the second character of ST.
C28_Witness ==
    /\ b94_pc = "wrapped"
    /\ Len(b94_data) >= 2
    /\ \E k \in DOMAIN b94_data : b94_data[k] >= 188
    /\ \E k \in DOMAIN b94_text : b94_text[k] = BACKSLASH
    /\ b94_back.v = b94_data
    /\ b94_seq[Len(b94_seq)] = BACKSLASH

-----------------------------------------------------------------------------
(* Properties of the layer lifecycle (SpecPlugin) *)

Range(seq) == {seq[k] : k \in DOMAIN seq}

\* The step is a call of op, as the host sees it afterwards.
Calling(op) == plug_last'.op = op

\* init_layer returns an id above every id it returned before.
FreshIds ==
    Calling("init_layer") /\ plug_last'.result = "returned" =>
        \A id \in Range(returned_ids) : id < plug_last'.id

\* render_layer on a disposed id returns False and invokes no render; a
\* dispose_layer on a disposed id invokes no destroy.
DisposedStaysDisposed ==
    /\ Calling("render_layer") /\ plug_last'.id \in disposed_ids =>
          plug_last'.result = "False" /\ plug_last'.invoked = {}
    /\ Calling("dispose_layer") /\ plug_last'.id \in disposed_ids =>
          plug_last'.invoked = {}

\* render_layer on an id init_layer never returned returns False.
UnreturnedRefused ==
    Calling("render_layer") /\ plug_last'.id \notin Range(returned_ids) =>
        plug_last'.result = "False"

LifecycleOfReturnedIds ==
    [][/\ FreshIds
       /\ DisposedStaysDisposed
       /\ Calling("render_layer") /\ plug_last'.id \notin Assigned =>
             plug_last'.result = "False"]_vars

\* A failed init_layer leaves _layer_instances and the id counter as they were.
FailedInitChangesNothing ==
    Calling("init_layer") /\ plug_last'.result = "raised" =>
        layer_instances' = layer_instances /\ current_layer_id' = current_layer_id

\* render and destroy are invoked only on instances whose init completed.
OnlyInitialized ==
    Calling("render_layer") \/ Calling("dispose_layer") \/ Calling("dispose_plugin") =>
        \A id \in plug_last'.invoked : layer_instances[id].ctx

FailedInitKeepsCounter ==
    [][Calling("init_layer") /\ plug_last'.result = "raised" =>
          current_layer_id' = current_layer_id]_vars

\* A failed init_layer leaves _layer_instances as it was.
FailedInitKeepsInstances ==
    [][Calling("init_layer") /\ plug_last'.result = "raised" =>
          layer_instances' = layer_instances]_vars

\* Render and destroy reach initialized instances only.
InvokedOnlyInitialized == [][OnlyInitialized]_vars

====
